---- MODULE Spec2Model ----
(***************************************************************************)
(* Pole chain fault localization and isolation: the coordination arbiter   *)
(* (RealSystem / SimSystem managers, the shared fault engine, the          *)
(* coordination and telemetry routes, the operating-mode gate) and the     *)
(* simulator's power-flow model that feeds it.                             *)
(*                                                                         *)
(* The persistent mirror is taken as unavailable (db is null, the fallback *)
(* the code provides): saveToFirebase then returns at once and updatePole  *)
(* stores the snapshot and runs the engine without another handler in      *)
(* between.                                                                *)
(*                                                                         *)
(* JavaScript values are modelled as follows:                              *)
(*   - a null pole snapshot is the record NullSnap;                        *)
(*   - a null string field (faultLocation, faultType) is "null";           *)
(*   - recoveryStartTime null is 0: the code tests it with `!x`, which     *)
(*     treats null and 0 alike, and Date.now() is never 0;                 *)
(*   - an absent request field is "undef";                                 *)
(*   - isSimulation is "true" (the boolean), "false", "absent" or "1" (a   *)
(*     truthy value that is not the boolean true);                         *)
(*   - an object used as a map (poleStates, pendingCommands,               *)
(*     lastUpdateTime) is a function whose domain can grow.                *)
(* The write-only fields lastFaultTime / lastRecoveryTime, the command's   *)
(* id / timestamp / reason, the persistent mirror and the broadcast of     *)
(* pole updates are not read by any decision and are left out; the         *)
(* engine's own events (io.emit) are kept in lastOp.emits.                 *)
(***************************************************************************)
EXTENDS Integers, Sequences, FiniteSets, TLC

VARIABLES
    mode,             \* systemMode: "IDLE" | "REAL" | "SIM"
    poleStates,       \* [context -> [poleId -> snapshot]]
    pendingCommands,  \* [context -> [poleId -> sequence of actions]]
    lastUpdateTime,   \* [context -> [poleId -> time of last publish, 0 if none]]
    systemState,      \* [context -> SystemState record]
    now,              \* Date.now()
    physics,          \* simulator: gridPower and wireCuts
    poles,            \* simulator: relayIn / relayOut of every pole
    readings,         \* simulator: the sensor readings of the last loop turn
    simPc,            \* simulator: where each pole's sendCoordinationState stands
    sweepAt,          \* [context -> time of its next staleness sweep, 0 before the timer starts]
    limits,           \* the bounds the specification runs under (never changes)
    node,             \* one pole's firmware: its globals and where its loop stands
    lastOp            \* the last handler that ran, with its result

vars == <<mode, poleStates, pendingCommands, lastUpdateTime, systemState,
          now, physics, poles, readings, simPc, sweepAt, limits, node, lastOp>>

(***************************************************************************)
(* Constants of the program                                                *)
(***************************************************************************)
POLE_ORDER == <<"Pole1", "Pole2", "Pole3", "Pole4">>

RECOVERY_STABLE_MS == 3000

STALE_TIMEOUT_MS == 15000

\* The period of the staleness timer.
SWEEP_MS == 5000

\* The period of the simulator's loop.
INTERVAL_MS == 3000

Poles == {POLE_ORDER[i] : i \in 1..Len(POLE_ORDER)}

Contexts == {"real", "sim"}

(***************************************************************************)
(* Bounds of the model                                                     *)
(***************************************************************************)
\* The clock runs from BootTime to BootTime + MaxSpans * RECOVERY_STABLE_MS.
MaxSpans == 1

\* No command queue grows beyond MaxQueue entries.
MaxQueue == 1

\* Date.now() when the model starts.
BootTime == 1

\* The node's clock runs for NodeHorizon ms after a power-on or reset.
NodeHorizon == 7000

\* The node is reset at most MaxBoots times after its first power-on.
MaxBoots == 1

\* Firings of each staleness timer in the specification of the two contexts.
MaxContextSweeps == 4

\* No command queue grows beyond this in the specification of the segments.
MaxSegmentQueue == 2

\* Periods of the simulator's loop in the timed closed loop.
MaxTurns == 3

MaxNow == BootTime + MaxSpans * RECOVERY_STABLE_MS

\* The clock advances by one stability interval, or by one millisecond less.
TickSteps == {RECOVERY_STABLE_MS - 1, RECOVERY_STABLE_MS}

(***************************************************************************)
(* Values                                                                  *)
(***************************************************************************)
NullSnap == [incomingCurrent |-> "null", outgoingCurrent |-> "null"]

DISABLE == "DISABLE_OUTGOING_RELAY"

ENABLE == "ENABLE_OUTGOING_RELAY"

\* JS truthiness of the isSimulation field.
Truthy(v) == v \in {"true", "1"}

\* `${upstreamPoleId}-${currentPoleId}` for the pair whose downstream pole is
\* POLE_ORDER[i] in the code's zero-based indexing (i = 1..3).
faultSegment(i) == POLE_ORDER[i] \o "-" \o POLE_ORDER[i + 1]

Segments == {faultSegment(i) : i \in 1..(Len(POLE_ORDER) - 1)}

includes(seq, x) == \E j \in 1..Len(seq) : seq[j] = x

Range(seq) == {seq[j] : j \in 1..Len(seq)}

\* obj[key] = value on a JS object: the key is created when it is missing.
setKey(obj, key, value) == (key :> value) @@ obj

(***************************************************************************)
(* Constructors and reset                                                  *)
(***************************************************************************)
RealBaseline ==
    [status |-> "WAITING", faultLocation |-> "null", faultType |-> "null",
     recoveryStartTime |-> 0, isolatedSegments |-> <<>>]

SimBaseline ==
    [status |-> "SIM_IDLE", faultLocation |-> "null", faultType |-> "null",
     recoveryStartTime |-> 0, isolatedSegments |-> <<>>]

Baseline(c) == IF c = "real" THEN RealBaseline ELSE SimBaseline

EmptyPoleStates == [p \in Poles |-> NullSnap]

EmptyQueues == [p \in Poles |-> <<>>]

ZeroTimes == [p \in Poles |-> 0]

(***************************************************************************)
(* The fault engine (FaultDetection.runFaultEngine)                        *)
(***************************************************************************)
\* Pole1 reports no incoming current: the grid is down.
GridDownCheck(ps) ==
    ps["Pole1"] # NullSnap /\ ps["Pole1"].incomingCurrent = "LOW"

\* Mutant: GRID_DOWN is declared anew even when it is already the status.
GridDownBranch_Again(sys) ==
    [sys |-> [sys EXCEPT !.status = "GRID_DOWN",
                         !.faultType = "GRID_DOWN",
                         !.faultLocation = "Grid",
                         !.recoveryStartTime = 0],
     queued |-> <<>>, emits |-> <<<<"gridDown", "Grid">>>>, changed |-> TRUE]

GridDownBranch(sys) ==
    IF sys.status # "GRID_DOWN"
    THEN [sys |-> [sys EXCEPT !.status = "GRID_DOWN",
                              !.faultType = "GRID_DOWN",
                              !.faultLocation = "Grid",
                              !.recoveryStartTime = 0],
          queued |-> <<>>, emits |-> <<<<"gridDown", "Grid">>>>, changed |-> TRUE]
    ELSE [sys |-> sys, queued |-> <<>>, emits |-> <<>>, changed |-> FALSE]

GridRecoveryCheck(ps, sys) ==
    /\ ps["Pole1"] # NullSnap
    /\ ps["Pole1"].incomingCurrent = "HIGH"
    /\ sys.status = "GRID_DOWN"

\* Mutant: the grid recovery keeps the isolated segments.
GridRecoveryBranch_KeepSegments(sys) ==
    [sys |-> [sys EXCEPT !.status = "NORMAL",
                         !.faultType = "null",
                         !.faultLocation = "null"],
     queued |-> <<>>, emits |-> <<<<"normal", "Grid">>>>, changed |-> TRUE]

GridRecoveryBranch(sys) ==
    [sys |-> [sys EXCEPT !.status = "NORMAL",
                         !.faultType = "null",
                         !.faultLocation = "null",
                         !.isolatedSegments = <<>>],
     queued |-> <<>>, emits |-> <<<<"normal", "Grid">>>>, changed |-> TRUE]

\* Mutant: the mismatch is not checked against isolatedSegments.
FaultRule_NoIsolatedCheck(currentState, upstreamState, sys, seg) ==
    /\ currentState.incomingCurrent = "LOW"
    /\ upstreamState.outgoingCurrent = "HIGH"

\* FAULT: downstream incoming LOW but upstream outgoing HIGH, not yet isolated.
FaultRule(currentState, upstreamState, sys, seg) ==
    /\ currentState.incomingCurrent = "LOW"
    /\ upstreamState.outgoingCurrent = "HIGH"
    /\ ~includes(sys.isolatedSegments, seg)

\* Mutant: the isolation is recorded but no command is queued.
FaultBranch_NoCommand(acc, upstreamPoleId, seg) ==
    [sys |-> [acc.sys EXCEPT !.status = "FAULT",
                             !.faultType = "WIRE_CUT",
                             !.faultLocation = seg,
                             !.recoveryStartTime = 0,
                             !.isolatedSegments = Append(@, seg)],
     queued |-> acc.queued,
     emits |-> Append(acc.emits, <<"fault", seg>>),
     changed |-> TRUE]

FaultBranch(acc, upstreamPoleId, seg) ==
    [sys |-> [acc.sys EXCEPT !.status = "FAULT",
                             !.faultType = "WIRE_CUT",
                             !.faultLocation = seg,
                             !.recoveryStartTime = 0,
                             !.isolatedSegments = Append(@, seg)],
     queued |-> Append(acc.queued, <<upstreamPoleId, DISABLE>>),
     emits |-> Append(acc.emits, <<"fault", seg>>),
     changed |-> TRUE]

\* RECOVERY: both ends HIGH on an isolated segment.
RecoveryRule(currentState, upstreamState, sys, seg) ==
    /\ currentState.incomingCurrent = "HIGH"
    /\ upstreamState.outgoingCurrent = "HIGH"
    /\ includes(sys.isolatedSegments, seg)

\* if (!recoveryStartTime) recoveryStartTime = Date.now()
RecoveryStart(sys, t) ==
    IF sys.recoveryStartTime = 0 THEN t ELSE sys.recoveryStartTime

\* stableFor >= RECOVERY_STABLE_MS
RecoveryDue(t, start) == t - start >= RECOVERY_STABLE_MS

\* Mutant: the status is not returned to NORMAL when the last segment clears.
RecoveryComplete_KeepStatus(acc, upstreamPoleId, seg) ==
    LET rest == SelectSeq(acc.sys.isolatedSegments, LAMBDA s : s # seg)
    IN [sys |-> [acc.sys EXCEPT !.isolatedSegments = rest, !.recoveryStartTime = 0],
        queued |-> Append(acc.queued, <<upstreamPoleId, ENABLE>>),
        emits |-> Append(acc.emits, <<"clear", seg>>),
        changed |-> TRUE]

RecoveryComplete(acc, upstreamPoleId, seg) ==
    LET rest == SelectSeq(acc.sys.isolatedSegments, LAMBDA s : s # seg)
        s1 == [acc.sys EXCEPT !.isolatedSegments = rest]
        s2 == IF Len(rest) = 0
              THEN [s1 EXCEPT !.status = "NORMAL",
                              !.faultType = "null",
                              !.faultLocation = "null"]
              ELSE s1
    IN [sys |-> [s2 EXCEPT !.recoveryStartTime = 0],
        queued |-> Append(acc.queued, <<upstreamPoleId, ENABLE>>),
        emits |-> Append(acc.emits, <<"clear", seg>>),
        changed |-> TRUE]

RecoveryBranch(acc, upstreamPoleId, seg, t) ==
    LET start == RecoveryStart(acc.sys, t)
        a1 == [acc EXCEPT !.sys.recoveryStartTime = start]
    IN IF RecoveryDue(t, start) THEN RecoveryComplete(a1, upstreamPoleId, seg) ELSE a1

\* Mutant: the commands of a pair go to its downstream pole.
PairStep_Downstream(ps, acc, i, t) ==
    LET currentState == ps[POLE_ORDER[i + 1]]
        upstreamState == ps[POLE_ORDER[i]]
        seg == faultSegment(i)
    IN IF currentState = NullSnap \/ upstreamState = NullSnap
       THEN acc
       ELSE LET a1 == IF FaultRule(currentState, upstreamState, acc.sys, seg)
                      THEN FaultBranch(acc, POLE_ORDER[i + 1], seg)
                      ELSE acc
            IN IF RecoveryRule(currentState, upstreamState, a1.sys, seg)
               THEN RecoveryBranch(a1, POLE_ORDER[i + 1], seg, t)
               ELSE a1

\* One iteration of the loop over the adjacent pairs, i = 1..3.
PairStep(ps, acc, i, t) ==
    LET currentState == ps[POLE_ORDER[i + 1]]
        upstreamState == ps[POLE_ORDER[i]]
        seg == faultSegment(i)
    IN IF currentState = NullSnap \/ upstreamState = NullSnap
       THEN acc
       ELSE LET a1 == IF FaultRule(currentState, upstreamState, acc.sys, seg)
                      THEN FaultBranch(acc, POLE_ORDER[i], seg)
                      ELSE acc
            IN IF RecoveryRule(currentState, upstreamState, a1.sys, seg)
               THEN RecoveryBranch(a1, POLE_ORDER[i], seg, t)
               ELSE a1

RECURSIVE PairLoop(_, _, _, _)
PairLoop(ps, acc, i, t) ==
    IF i >= Len(POLE_ORDER) THEN acc
    ELSE PairLoop(ps, PairStep(ps, acc, i, t), i + 1, t)

\* Mutant: a sweep over a context without isolated segments calls it NORMAL.
EngineStart_Normal(sys) ==
    [sys |-> [sys EXCEPT !.status = IF sys.isolatedSegments = <<>> THEN "NORMAL" ELSE @],
     queued |-> <<>>, emits |-> <<>>, changed |-> FALSE]

EngineStart(sys) == [sys |-> sys, queued |-> <<>>, emits |-> <<>>, changed |-> FALSE]

\* Mutant: the grid-down branch does not return; the pairs are evaluated too.
runFaultEngine_NoGridDownReturn(ps, sys, t) ==
    IF GridDownCheck(ps) THEN PairLoop(ps, GridDownBranch(sys), 1, t)
    ELSE IF GridRecoveryCheck(ps, sys) THEN GridRecoveryBranch(sys)
    ELSE PairLoop(ps, EngineStart(sys), 1, t)

\* Mutant: the grid-recovery branch does not return; the pairs are evaluated too.
runFaultEngine_NoGridRecoveryReturn(ps, sys, t) ==
    IF GridDownCheck(ps) THEN GridDownBranch(sys)
    ELSE IF GridRecoveryCheck(ps, sys) THEN PairLoop(ps, GridRecoveryBranch(sys), 1, t)
    ELSE PairLoop(ps, EngineStart(sys), 1, t)

\* The whole sweep: the new SystemState, the commands handed to queueCommand,
\* the events emitted, and the returned stateChanged.
runFaultEngine(ps, sys, t) ==
    IF GridDownCheck(ps) THEN GridDownBranch(sys)
    ELSE IF GridRecoveryCheck(ps, sys) THEN GridRecoveryBranch(sys)
    ELSE PairLoop(ps, EngineStart(sys), 1, t)

(***************************************************************************)
(* The managers (RealSystem / SimSystem)                                   *)
(***************************************************************************)
\* queueCommand: the queue is created when the pole id has none.
queueCommand(pc, poleId, action) ==
    LET q == IF poleId \in DOMAIN pc THEN pc[poleId] ELSE <<>>
    IN setKey(pc, poleId, Append(q, action))

RECURSIVE queueAll(_, _)
queueAll(pc, cmds) ==
    IF cmds = <<>> THEN pc
    ELSE queueAll(queueCommand(pc, Head(cmds)[1], Head(cmds)[2]), Tail(cmds))

QueuesWithin(pc) == \A p \in DOMAIN pc : Len(pc[p]) <= limits.queue

Result(op, c, code, changed, emits, ret, resweep) ==
    [op |-> op, ctx |-> c, code |-> code, changed |-> changed, emits |-> emits,
     ret |-> ret, resweep |-> resweep]

\* updatePole: store the snapshot, stamp the time, run the engine.  resweep
\* records that this sweep directly follows another sweep of the same context
\* and found the snapshot table as that sweep left it.
updatePole(c, poleId, data) ==
    LET ps == setKey(poleStates[c], poleId, data)
        r == runFaultEngine(ps, systemState[c], now)
        pc == queueAll(pendingCommands[c], r.queued)
        again == /\ lastOp.op = "publish" /\ lastOp.code = 200 /\ lastOp.ctx = c
                 /\ ps = poleStates[c]
    IN /\ QueuesWithin(pc)
       /\ poleStates' = [poleStates EXCEPT ![c] = ps]
       /\ lastUpdateTime' = [lastUpdateTime EXCEPT ![c] = setKey(@, poleId, now)]
       /\ systemState' = [systemState EXCEPT ![c] = r.sys]
       /\ pendingCommands' = [pendingCommands EXCEPT ![c] = pc]
       /\ lastOp' = Result("publish", c, 200, r.changed, r.emits, <<>>, again)

\* Mutant: the queue is returned but not cleared.
getCommands_NoClear(c, poleId) ==
    LET cmds == IF poleId \in DOMAIN pendingCommands[c]
                THEN pendingCommands[c][poleId] ELSE <<>>
    IN /\ pendingCommands' = pendingCommands
       /\ lastOp' = Result("getCommands", c, 200, FALSE, <<>>, cmds, FALSE)

\* getCommands: return the queue and clear it.
getCommands(c, poleId) ==
    LET cmds == IF poleId \in DOMAIN pendingCommands[c]
                THEN pendingCommands[c][poleId] ELSE <<>>
    IN /\ pendingCommands' = [pendingCommands EXCEPT ![c] = setKey(@, poleId, <<>>)]
       /\ lastOp' = Result("getCommands", c, 200, FALSE, <<>>, cmds, FALSE)

\* getSummary: the system state with one entry per pole of POLE_ORDER; a pole
\* without a snapshot is listed as OFFLINE.
getSummary(c) ==
    [status |-> systemState[c].status,
     faultLocation |-> systemState[c].faultLocation,
     isolatedSegments |-> systemState[c].isolatedSegments,
     poles |-> [p \in Poles |->
                  LET s == poleStates[c][p]
                  IN IF s = NullSnap THEN [nodeState |-> "OFFLINE"]
                     ELSE [incomingCurrent |-> IF s.incomingCurrent = "undef"
                                               THEN "UNKNOWN" ELSE s.incomingCurrent,
                           outgoingCurrent |-> IF s.outgoingCurrent = "undef"
                                               THEN "N/A" ELSE s.outgoingCurrent]]]

\* Mutant: reset keeps the queues.
reset_KeepQueues(c) ==
    [poleStates |-> EmptyPoleStates,
     pendingCommands |-> pendingCommands[c],
     systemState |-> Baseline(c)]

\* reset: fresh snapshot table, fresh queues, fresh system state.  The times
\* of the last publishes are not touched.
reset(c) ==
    [poleStates |-> EmptyPoleStates,
     pendingCommands |-> EmptyQueues,
     systemState |-> Baseline(c)]

\* Mutant: a snapshot expires as soon as it is STALE_TIMEOUT_MS old.
expired_AtTimeout(c, poleId) ==
    /\ lastUpdateTime[c][poleId] > 0
    /\ now - lastUpdateTime[c][poleId] >= STALE_TIMEOUT_MS

\* The sweep's test of one pole: it has published and that is too long ago.
expired(c, poleId) ==
    /\ lastUpdateTime[c][poleId] > 0
    /\ now - lastUpdateTime[c][poleId] > STALE_TIMEOUT_MS

\* Mutant: the sweep never resets the context.
stalenessCheck_NoReset(c) ==
    LET wentStale == {p \in Poles : expired(c, p) /\ poleStates[c][p] # NullSnap}
        ps == [p \in DOMAIN poleStates[c] |->
                 IF p \in wentStale THEN NullSnap ELSE poleStates[c][p]]
        lut == [p \in DOMAIN lastUpdateTime[c] |->
                  IF p \in wentStale THEN 0 ELSE lastUpdateTime[c][p]]
    IN /\ lastUpdateTime' = [lastUpdateTime EXCEPT ![c] = lut]
       /\ poleStates' = [poleStates EXCEPT ![c] = ps]
       /\ UNCHANGED <<pendingCommands, systemState>>
       /\ lastOp' = Result("sweep", c, 200, wentStale # {},
                           IF wentStale # {} THEN <<"update">> ELSE <<>>, <<>>, FALSE)

\* The callback of startStalenessCheck: every pole of POLE_ORDER whose
\* snapshot has expired loses it together with its time; when that happened
\* to some pole and no pole is within the timeout, the context is reset.  The
\* result of a resetting sweep records the status it found.
stalenessCheck(c) ==
    LET wentStale == {p \in Poles : expired(c, p) /\ poleStates[c][p] # NullSnap}
        active == {p \in Poles : lastUpdateTime[c][p] > 0 /\ ~expired(c, p)}
        ps == [p \in DOMAIN poleStates[c] |->
                 IF p \in wentStale THEN NullSnap ELSE poleStates[c][p]]
        lut == [p \in DOMAIN lastUpdateTime[c] |->
                  IF p \in wentStale THEN 0 ELSE lastUpdateTime[c][p]]
        collapse == wentStale # {} /\ active = {}
    IN /\ lastUpdateTime' = [lastUpdateTime EXCEPT ![c] = lut]
       /\ IF collapse
          THEN /\ poleStates' = [poleStates EXCEPT ![c] = reset(c).poleStates]
               /\ pendingCommands' = [pendingCommands EXCEPT ![c] = reset(c).pendingCommands]
               /\ systemState' = [systemState EXCEPT ![c] = reset(c).systemState]
               /\ lastOp' = Result("sweep", c, 200, TRUE, <<"normal", "update">>,
                                   <<systemState[c].status>>, FALSE)
          ELSE /\ poleStates' = [poleStates EXCEPT ![c] = ps]
               /\ UNCHANGED <<pendingCommands, systemState>>
               /\ lastOp' = Result("sweep", c, 200, wentStale # {},
                                   IF wentStale # {} THEN <<"update">> ELSE <<>>,
                                   <<>>, FALSE)

(***************************************************************************)
(* The operating mode (state/systemMode, routes/settings)                  *)
(***************************************************************************)
Modes == {"IDLE", "REAL", "SIM"}

\* POST /api/settings/mode
SetModeRoute(m) ==
    IF m \in Modes
    THEN /\ mode' = m
         /\ lastOp' = Result("setMode", "none", 200, FALSE, <<>>,
                             IF mode = "SIM" /\ m = "IDLE" THEN <<"simulation">>
                             ELSE <<>>, FALSE)
         /\ UNCHANGED <<poleStates, pendingCommands, lastUpdateTime, systemState>>
    ELSE /\ lastOp' = Result("setMode", "none", 400, FALSE, <<>>, <<>>, FALSE)
         /\ UNCHANGED <<mode, poleStates, pendingCommands, lastUpdateTime, systemState>>

(***************************************************************************)
(* The coordination routes and the telemetry route                         *)
(***************************************************************************)
\* A handler that answers with an error status and touches nothing.
Reject(op, c, code) ==
    /\ lastOp' = Result(op, c, code, FALSE, <<>>, <<>>, FALSE)
    /\ UNCHANGED <<mode, poleStates, pendingCommands, lastUpdateTime, systemState>>

\* Mode enforcement of POST /state and POST /command.
ModeRejects(body) ==
    LET isSimPayload == body.isSimulation = "true"
    IN \/ mode = "IDLE"
       \/ (mode = "REAL" /\ isSimPayload)
       \/ (mode = "SIM" /\ ~isSimPayload)

\* const manager = isSimulation ? SimSystem : RealSystem
managerOf(isSimulation) == IF Truthy(isSimulation) THEN "sim" ELSE "real"

\* The short codes are mapped first, then ...req.body overrides every field
\* the body itself carries.
stateData(body) ==
    LET mapped == body.poleId \in {"Pole1", "Pole2", "Pole3", "Pole4"}
        inc0 == IF mapped /\ body.shortIn # "undef" THEN body.shortIn
                ELSE body.incomingCurrent
        out0 == IF mapped /\ body.poleId # "Pole4" /\ body.shortOut # "undef"
                THEN body.shortOut ELSE body.outgoingCurrent
        inc1 == IF inc0 = "undef" THEN "UNKNOWN" ELSE inc0
        out1 == IF body.poleId = "Pole4" THEN "N/A"
                ELSE IF out0 = "undef" THEN "UNKNOWN" ELSE out0
    IN [incomingCurrent |-> IF body.incomingCurrent # "undef"
                            THEN body.incomingCurrent ELSE inc1,
        outgoingCurrent |-> IF body.outgoingCurrent # "undef"
                            THEN body.outgoingCurrent ELSE out1]

\* POST /api/coordination/state
StateRoute(body) ==
    IF ModeRejects(body)
    THEN Reject("publish", managerOf(body.isSimulation), 403)
    ELSE /\ updatePole(managerOf(body.isSimulation), body.poleId, stateData(body))
         /\ UNCHANGED mode

\* voltage > 50 ? 'HIGH' : 'LOW'
inferIncoming(voltage) == IF voltage > 50 THEN "HIGH" ELSE "LOW"

\* POST /api/poles/data: real telemetry feeds RealSystem, simulator telemetry
\* is only logged.
DataRoute(body) ==
    LET isSimPayload == body.isSimulation = "true"
    IN IF mode = "IDLE" \/ (mode = "SIM" /\ ~isSimPayload)
       THEN Reject("publish", managerOf(body.isSimulation), 403)
       ELSE IF body.poleId = "undef" \/ ~includes(POLE_ORDER, body.poleId)
       THEN Reject("publish", managerOf(body.isSimulation), 400)
       ELSE IF ~Truthy(body.isSimulation)
       THEN /\ updatePole("real", body.poleId,
                          [incomingCurrent |-> inferIncoming(body.voltage),
                           outgoingCurrent |-> "undef"])
            /\ UNCHANGED mode
       ELSE /\ lastOp' = Result("log", "sim", 200, FALSE, <<>>, <<>>, FALSE)
            /\ UNCHANGED <<mode, poleStates, pendingCommands, lastUpdateTime, systemState>>

\* Mutant: the stored value is returned as it is.
PeerRoute_Raw(c, poleId) ==
    IF ~includes(POLE_ORDER, poleId)
    THEN Reject("getState", c, 400)
    ELSE /\ lastOp' = Result("getState", c, 200, FALSE, <<>>,
                             <<poleStates[c][poleId]>>, FALSE)
         /\ UNCHANGED <<mode, poleStates, pendingCommands, lastUpdateTime, systemState>>

\* GET /api/coordination/state/:poleId
PeerRoute(c, poleId) ==
    IF ~includes(POLE_ORDER, poleId)
    THEN Reject("getState", c, 400)
    ELSE /\ lastOp' = Result("getState", c, 200, FALSE, <<>>,
                             <<IF poleStates[c][poleId] = NullSnap
                               THEN [poleId |-> poleId, nodeState |-> "OFFLINE"]
                               ELSE poleStates[c][poleId]>>, FALSE)
         /\ UNCHANGED <<mode, poleStates, pendingCommands, lastUpdateTime, systemState>>

\* GET /api/coordination/commands/:poleId
CommandsRoute(c, poleId) ==
    IF ~includes(POLE_ORDER, poleId)
    THEN Reject("getCommands", c, 400)
    ELSE /\ getCommands(c, poleId)
         /\ UNCHANGED <<mode, poleStates, lastUpdateTime, systemState>>

\* POST /api/coordination/command (admin)
CommandRoute(body) ==
    IF ModeRejects(body)
    THEN Reject("command", managerOf(body.isSimulation), 403)
    ELSE IF body.poleId = "undef" \/ body.action = "undef"
    THEN Reject("command", managerOf(body.isSimulation), 400)
    ELSE LET c == managerOf(body.isSimulation)
             pc == queueCommand(pendingCommands[c], body.poleId, body.action)
         IN /\ QueuesWithin(pc)
            /\ pendingCommands' = [pendingCommands EXCEPT ![c] = pc]
            /\ lastOp' = Result("command", c, 200, FALSE, <<>>, <<>>, FALSE)
            /\ UNCHANGED <<mode, poleStates, lastUpdateTime, systemState>>

\* GET /api/coordination/system
SystemRoute(c) ==
    /\ lastOp' = Result("getSystem", c, 200, FALSE, <<>>, <<getSummary(c)>>, FALSE)
    /\ UNCHANGED <<mode, poleStates, pendingCommands, lastUpdateTime, systemState>>

\* Mutant: POST /reset resets the two managers.
ResetRoute_Both(body) ==
    LET c == managerOf(body.isSimulation)
    IN /\ poleStates' = [d \in Contexts |-> reset(d).poleStates]
       /\ pendingCommands' = [d \in Contexts |-> reset(d).pendingCommands]
       /\ systemState' = [d \in Contexts |-> reset(d).systemState]
       /\ lastOp' = Result("reset", c, 200, TRUE, <<"normal", "update">>, <<>>, FALSE)
       /\ UNCHANGED <<mode, lastUpdateTime>>

\* POST /api/coordination/reset
ResetRoute(body) ==
    LET c == managerOf(body.isSimulation)
    IN /\ poleStates' = [poleStates EXCEPT ![c] = reset(c).poleStates]
       /\ pendingCommands' = [pendingCommands EXCEPT ![c] = reset(c).pendingCommands]
       /\ systemState' = [systemState EXCEPT ![c] = reset(c).systemState]
       /\ lastOp' = Result("reset", c, 200, TRUE, <<"normal", "update">>, <<>>, FALSE)
       /\ UNCHANGED <<mode, lastUpdateTime>>

(***************************************************************************)
(* The simulator: power flow along the chain and the per-pole client       *)
(***************************************************************************)
\* processPole: the readings of one pole given the power offered to it.
processPole(poleId, inputPowerAvailable) ==
    LET p == poles[poleId]
        isTerminal == poleId = "Pole4"
        hasRelayOn == p.relayIn = "ON" \/ isTerminal
        hasInputPower == inputPowerAvailable /\ hasRelayOn
        hasOutputPower == hasInputPower /\ p.relayOut = "ON"
    IN [inCurrent |-> IF hasInputPower THEN "HIGH" ELSE "LOW",
        outCurrent |-> IF isTerminal THEN "N/A"
                       ELSE IF hasOutputPower THEN "HIGH" ELSE "LOW"]

\* calculatePhysics: the cascade Grid -> Pole1 -> ... -> Pole4.
RECURSIVE cascade(_, _, _)
cascade(r, i, powerAvailable) ==
    IF i > Len(POLE_ORDER) THEN r
    ELSE LET ri == processPole(POLE_ORDER[i], powerAvailable)
             next == IF i < Len(POLE_ORDER)
                     THEN ri.outCurrent = "HIGH" /\ ~physics.wireCuts[faultSegment(i)]
                     ELSE FALSE
         IN cascade(setKey(r, POLE_ORDER[i], ri), i + 1, next)

calculatePhysics == cascade(readings, 1, physics.gridPower)

\* The body sendCoordinationState posts: short codes only, flagged simulation.
simBody(poleId, r) ==
    [poleId |-> poleId, isSimulation |-> "true",
     incomingCurrent |-> "undef", outgoingCurrent |-> "undef",
     shortIn |-> r.inCurrent,
     shortOut |-> IF poleId = "Pole4" THEN "undef" ELSE r.outCurrent]

\* A polled command applied to the simulated relays.
applyCommand(p, action) ==
    IF action = DISABLE THEN [p EXCEPT !.relayOut = "OFF"]
    ELSE IF action = ENABLE THEN [p EXCEPT !.relayOut = "ON"]
    ELSE IF action = "DISABLE_INCOMING_RELAY" THEN [p EXCEPT !.relayIn = "OFF"]
    ELSE IF action = "ENABLE_INCOMING_RELAY" THEN [p EXCEPT !.relayIn = "ON"]
    ELSE p

RECURSIVE applyAll(_, _)
applyAll(p, cmds) ==
    IF cmds = <<>> THEN p ELSE applyAll(applyCommand(p, Head(cmds)), Tail(cmds))

(***************************************************************************)
(* The firmware of one pole (utility_pole_monitor.ino)                     *)
(*                                                                         *)
(* node holds the globals of the sketch and ms, the value of millis(): the  *)
(* time since the last power-on or watchdog reset, on the node's own       *)
(* clock.  The horizon is far below 2^32 ms, so the unsigned arithmetic    *)
(* never wraps.  The arbiter's clock stands still while the node runs:     *)
(* what the arbiter does for a single node does not depend on it, and no   *)
(* staleness sweep finds anything to expire within the horizon.  Every     *)
(* blocking HTTP exchange is a step of its own; the time a loop turn takes *)
(* is added when the next turn starts.                                     *)
(* buzzer is the level of BUZZER_PIN.                                      *)
(* Five fields are history only: gotDisable (a DISABLE                     *)
(* command was received since boot), condSince (the tick that started the  *)
(* present run of ticks in NORMAL with the loss condition, -1 if none),    *)
(* enteredAt (when RECOVERY was entered, -1 outside RECOVERY),             *)
(* turnChanged (the state machine step of the present turn of loop changed *)
(* currentState) and lastAnswer (what the last successful upstream poll    *)
(* reported: HIGH, LOW, OFFLINE, or none since boot).                      *)
(***************************************************************************)
SEND_INTERVAL == 5000

POLL_INTERVAL == 2000

DEBOUNCE_MS == 500

RECOVERY_MS == 3000

CMD_POLL_INTERVAL == 3000

\* delay(2000) of setup
BOOT_DELAY_MS == 2000

\* delay(100) of loop
LOOP_DELAY_MS == 100

POLE_ID(n) == POLE_ORDER[n.pole]

UPSTREAM_ID(n) == POLE_ORDER[n.pole - 1]

\* The globals as the static initialisers leave them at power-on or reset.
StaticInit(pole, boots) ==
    [pole |-> pole, pc |-> "setup", ms |-> 0, boots |-> boots,
     currentState |-> "NORMAL",
     incomingCurrentHigh |-> FALSE, outgoingCurrentHigh |-> FALSE,
     relayInEnabled |-> FALSE, relayOutEnabled |-> FALSE,
     faultFlag |-> FALSE, buzzer |-> FALSE,
     upstreamOutHigh |-> FALSE, upstreamDataValid |-> FALSE,
     lastSendTime |-> 0, lastPollTime |-> 0, lastCmdPoll |-> 0,
     faultStartTime |-> 0, recoveryStart |-> 0,
     gotDisable |-> FALSE, condSince |-> -1, enteredAt |-> -1,
     turnChanged |-> FALSE, lastAnswer |-> "none"]

millis == node.ms

\* enableRelay (poles 1 to 3 have both relays)
enableRelay(n, isIncoming, enable) ==
    IF isIncoming THEN [n EXCEPT !.relayInEnabled = enable]
    ELSE [n EXCEPT !.relayOutEnabled = enable]

\* readCurrentSensors
readCurrentSensors(n, inHigh, outHigh) ==
    [n EXCEPT !.incomingCurrentHigh = inHigh, !.outgoingCurrentHigh = outHigh]

\* readVoltageCurrent: whether the measured voltage or current is over its
\* threshold; over is what the samples give, and both measurements are forced
\* to zero when the incoming current sensor reads low.
readVoltageCurrent(n, over) == n.incomingCurrentHigh /\ over

\* setup after its delay: the sensors are read and the relays validated.
\* Mutant: the first pole enables its relays whether or not the grid is live.
setup_EnableAlways(n, inHigh, outHigh) ==
    LET r == readCurrentSensors(n, inHigh, outHigh)
        on == enableRelay(enableRelay(r, TRUE, TRUE), FALSE, TRUE)
    IN IF n.pole = 1
       THEN IF inHigh THEN [on EXCEPT !.currentState = "NORMAL"]
            ELSE [on EXCEPT !.currentState = "GRID_DOWN"]
       ELSE [on EXCEPT !.currentState = "NORMAL"]

setup(n, inHigh, outHigh) ==
    LET r == readCurrentSensors(n, inHigh, outHigh)
        on == enableRelay(enableRelay(r, TRUE, TRUE), FALSE, TRUE)
    IN IF n.pole = 1
       THEN IF inHigh THEN [on EXCEPT !.currentState = "NORMAL"]
            ELSE [r EXCEPT !.currentState = "GRID_DOWN"]
       ELSE [on EXCEPT !.currentState = "NORMAL"]

\* Mutant: the mismatch is tested against the cached upstream value even
\* when the last poll failed.
LossCondition_Stale(n) ==
    IF n.pole = 1 THEN ~n.incomingCurrentHigh
    ELSE ~n.incomingCurrentHigh /\ n.upstreamOutHigh

\* The condition that handleNormalState debounces.
LossCondition(n) ==
    IF n.pole = 1 THEN ~n.incomingCurrentHigh
    ELSE ~n.incomingCurrentHigh /\ n.upstreamDataValid /\ n.upstreamOutHigh

Debounced(t, start) == t - start >= DEBOUNCE_MS

\* Mutant: the over-voltage / over-current trip leaves the outgoing relay.
handleNormalState_KeepOut(n, t, surge) ==
    LET n0 == [n EXCEPT !.faultFlag = FALSE, !.buzzer = FALSE]
        start == IF n0.faultStartTime = 0 THEN t ELSE n0.faultStartTime
    IN IF LossCondition(n0)
       THEN IF Debounced(t, start)
            THEN [n0 EXCEPT !.currentState = IF n.pole = 1 THEN "GRID_DOWN"
                                             ELSE "FAULT_UPSTREAM",
                            !.faultFlag = TRUE,
                            !.faultStartTime = 0]
            ELSE [n0 EXCEPT !.faultStartTime = start]
       ELSE LET n1 == [n0 EXCEPT !.faultStartTime = 0]
            IN IF surge
               THEN enableRelay([n1 EXCEPT !.faultFlag = TRUE, !.buzzer = TRUE],
                                TRUE, FALSE)
               ELSE n1

\* handleNormalState; surge is the over-voltage / over-current reading.
handleNormalState(n, t, surge) ==
    LET n0 == [n EXCEPT !.faultFlag = FALSE, !.buzzer = FALSE]
        start == IF n0.faultStartTime = 0 THEN t ELSE n0.faultStartTime
    IN IF LossCondition(n0)
       THEN IF Debounced(t, start)
            THEN [n0 EXCEPT !.currentState = IF n.pole = 1 THEN "GRID_DOWN"
                                             ELSE "FAULT_UPSTREAM",
                            !.faultFlag = TRUE,
                            !.faultStartTime = 0]
            ELSE [n0 EXCEPT !.faultStartTime = start]
       ELSE LET n1 == [n0 EXCEPT !.faultStartTime = 0]
            IN IF surge
               THEN enableRelay(enableRelay([n1 EXCEPT !.faultFlag = TRUE,
                                                       !.buzzer = TRUE],
                                            TRUE, FALSE), FALSE, FALSE)
               ELSE n1

\* Mutant: the relays are closed again when the grid comes back.
handleGridDownState_Reconnect(n) ==
    IF n.incomingCurrentHigh
    THEN [enableRelay(enableRelay(n, TRUE, TRUE), FALSE, TRUE)
             EXCEPT !.currentState = "NORMAL", !.faultFlag = FALSE,
                    !.buzzer = FALSE]
    ELSE [n EXCEPT !.faultFlag = TRUE, !.buzzer = TRUE]

\* handleGridDownState
handleGridDownState(n) ==
    IF n.incomingCurrentHigh
    THEN [n EXCEPT !.currentState = "NORMAL", !.faultFlag = FALSE,
                   !.buzzer = FALSE]
    ELSE [n EXCEPT !.faultFlag = TRUE, !.buzzer = TRUE]

\* Mutant: the node leaves FAULT_UPSTREAM only with a valid upstream value.
handleFaultUpstreamState_NeedsPeer(n) ==
    IF n.incomingCurrentHigh /\ n.upstreamDataValid
    THEN [n EXCEPT !.currentState = "NORMAL", !.faultFlag = FALSE,
                   !.buzzer = FALSE]
    ELSE [n EXCEPT !.faultFlag = TRUE, !.buzzer = TRUE]

\* handleFaultUpstreamState
handleFaultUpstreamState(n) ==
    IF n.incomingCurrentHigh
    THEN [n EXCEPT !.currentState = "NORMAL", !.faultFlag = FALSE,
                   !.buzzer = FALSE]
    ELSE [n EXCEPT !.faultFlag = TRUE, !.buzzer = TRUE]

\* handleFaultDownstreamState
handleFaultDownstreamState(n, t) ==
    IF n.outgoingCurrentHigh
    THEN [n EXCEPT !.faultFlag = TRUE, !.currentState = "RECOVERY", !.recoveryStart = t]
    ELSE [n EXCEPT !.faultFlag = TRUE]

\* The stability test of handleRecoveryState.
Stable(n) ==
    n.incomingCurrentHigh /\ (n.outgoingCurrentHigh \/ ~n.relayOutEnabled)

\* Mutant: the recovery completes without waiting.
handleRecoveryState_NoWait(n, t) ==
    IF ~Stable(n)
    THEN [n EXCEPT !.currentState = "FAULT_DOWNSTREAM", !.recoveryStart = 0]
    ELSE [enableRelay(n, FALSE, TRUE) EXCEPT !.currentState = "NORMAL",
                                             !.faultFlag = FALSE,
                                             !.buzzer = FALSE,
                                             !.recoveryStart = 0]

\* handleRecoveryState
handleRecoveryState(n, t) ==
    IF ~Stable(n)
    THEN [n EXCEPT !.currentState = "FAULT_DOWNSTREAM", !.recoveryStart = 0]
    ELSE IF t - n.recoveryStart >= RECOVERY_MS
    THEN [enableRelay(n, FALSE, TRUE) EXCEPT !.currentState = "NORMAL",
                                             !.faultFlag = FALSE,
                                             !.buzzer = FALSE,
                                             !.recoveryStart = 0]
    ELSE n

\* runStateMachine
runStateMachine(n, t, surge) ==
    CASE n.currentState = "NORMAL" -> handleNormalState(n, t, surge)
      [] n.currentState = "GRID_DOWN" -> handleGridDownState(n)
      [] n.currentState = "FAULT_UPSTREAM" -> handleFaultUpstreamState(n)
      [] n.currentState = "FAULT_DOWNSTREAM" -> handleFaultDownstreamState(n, t)
      [] n.currentState = "RECOVERY" -> handleRecoveryState(n, t)

\* The history fields after the state machine ran at time t on readings r
\* and produced n.
History(r, n, t) ==
    [n EXCEPT !.condSince = IF r.currentState = "NORMAL" /\ LossCondition(r)
                            THEN IF r.condSince >= 0 THEN r.condSince ELSE t
                            ELSE -1,
              !.enteredAt = IF n.currentState # "RECOVERY" THEN -1
                            ELSE IF r.currentState = "RECOVERY" THEN r.enteredAt
                            ELSE t]

\* The exchanges of loop in their order; the first one that is due at time t
\* after the exchange `done`.
Stages == <<"publish", "pollUp", "pollCmd">>

Due(n, t, stage) ==
    CASE stage = "publish" -> t - n.lastSendTime >= SEND_INTERVAL
      [] stage = "pollUp" -> n.pole > 1 /\ t - n.lastPollTime >= POLL_INTERVAL
      [] stage = "pollCmd" -> t - n.lastCmdPoll >= CMD_POLL_INTERVAL

NextStage(n, t, done) ==
    LET later == {i \in (done + 1)..Len(Stages) : Due(n, t, Stages[i])}
    IN IF later = {} THEN "idle"
       ELSE Stages[CHOOSE i \in later : \A j \in later : i <= j]

\* publishState: the body with the short codes of this pole.
publishBody(n) ==
    [poleId |-> POLE_ID(n), isSimulation |-> "absent",
     incomingCurrent |-> "undef", outgoingCurrent |-> "undef",
     shortIn |-> IF n.incomingCurrentHigh THEN "HIGH" ELSE "LOW",
     shortOut |-> IF n.outgoingCurrentHigh THEN "HIGH" ELSE "LOW"]

\* pollUpstreamState: what the node keeps of the answer.  An answer without
\* an outgoingCurrent field (OFFLINE) leaves the previous values.
pollUpstreamState(n, ok, snapshot) ==
    IF ~ok THEN [n EXCEPT !.upstreamDataValid = FALSE]
    ELSE IF snapshot = NullSnap THEN n
    ELSE [n EXCEPT !.upstreamDataValid = TRUE,
                   !.upstreamOutHigh = snapshot.outgoingCurrent = "HIGH"]

\* Mutant: DISABLE_OUTGOING_RELAY opens the incoming relay as well.
pollCommands_BothRelays(n, t, body) ==
    LET hasDisable == includes(body, DISABLE)
        hasEnable == includes(body, ENABLE)
        n1 == IF hasDisable
              THEN [enableRelay(enableRelay(n, TRUE, FALSE), FALSE, FALSE)
                       EXCEPT !.currentState = "FAULT_DOWNSTREAM",
                              !.faultFlag = TRUE,
                              !.buzzer = TRUE,
                              !.gotDisable = TRUE]
              ELSE n
    IN IF hasEnable /\ ~hasDisable
       THEN [enableRelay(n1, FALSE, TRUE) EXCEPT !.currentState = "RECOVERY",
                                                !.recoveryStart = t]
       ELSE n1

\* pollCommands: body is the list of actions in the answer.
pollCommands(n, t, body) ==
    LET hasDisable == includes(body, DISABLE)
        hasEnable == includes(body, ENABLE)
        n1 == IF hasDisable
              THEN [enableRelay(n, FALSE, FALSE) EXCEPT !.currentState = "FAULT_DOWNSTREAM",
                                                       !.faultFlag = TRUE,
                                                       !.buzzer = TRUE,
                                                       !.gotDisable = TRUE]
              ELSE n
    IN IF hasEnable /\ ~hasDisable
       THEN [enableRelay(n1, FALSE, TRUE) EXCEPT !.currentState = "RECOVERY",
                                                !.recoveryStart = t]
       ELSE n1

(***************************************************************************)
(* Actions                                                                 *)
(***************************************************************************)
simVars == <<physics, poles, readings, simPc>>

\* ensureManagerIO: the first coordination request hands the socket server to
\* both managers and starts their staleness timers.
ensureManagerIO ==
    sweepAt' = [c \in Contexts |-> IF sweepAt[c] = 0 THEN now + SWEEP_MS ELSE sweepAt[c]]

PostState(body) == StateRoute(body) /\ ensureManagerIO /\ UNCHANGED <<now, simVars, limits, node>>

PostData(body) == DataRoute(body) /\ UNCHANGED <<now, simVars, sweepAt, limits, node>>

GetState(c, poleId) == PeerRoute(c, poleId) /\ ensureManagerIO /\ UNCHANGED <<now, simVars, limits, node>>

GetCommands(c, poleId) == CommandsRoute(c, poleId) /\ ensureManagerIO /\ UNCHANGED <<now, simVars, limits, node>>

PostCommand(body) == CommandRoute(body) /\ ensureManagerIO /\ UNCHANGED <<now, simVars, limits, node>>

SetMode(m) == SetModeRoute(m) /\ UNCHANGED <<now, simVars, sweepAt, limits, node>>

GetSystem(c) == SystemRoute(c) /\ ensureManagerIO /\ UNCHANGED <<now, simVars, limits, node>>

PostReset(body) == ResetRoute(body) /\ ensureManagerIO /\ UNCHANGED <<now, simVars, limits, node>>

\* The staleness timer of a context fires and is due again SWEEP_MS later.
Sweep(c) ==
    /\ sweepAt[c] # 0
    /\ now = sweepAt[c]
    /\ stalenessCheck(c)
    /\ sweepAt' = [sweepAt EXCEPT ![c] = now + SWEEP_MS]
    /\ UNCHANGED <<mode, now, simVars, limits, node>>

\* Time passes between two handlers; a staleness sweep that is due runs
\* before time moves past it.
Tick(d) ==
    /\ now + d <= limits.clock
    /\ \A c \in Contexts : sweepAt[c] = 0 \/ now + d <= sweepAt[c]
    /\ now' = now + d
    /\ lastOp' = Result("tick", "none", 200, FALSE, <<>>, <<>>, FALSE)
    /\ UNCHANGED <<mode, poleStates, pendingCommands, lastUpdateTime, systemState,
                   simVars, sweepAt, limits, node>>

\* simulateWireCut(idx), while no wire is cut yet.
SimWireCut(idx) ==
    /\ \A s \in Segments : ~physics.wireCuts[s]
    /\ physics' = [physics EXCEPT !.wireCuts[faultSegment(idx)] = TRUE]
    /\ lastOp' = Result("wireCut", "sim", 200, FALSE, <<>>, <<>>, FALSE)
    /\ UNCHANGED <<mode, poleStates, pendingCommands, lastUpdateTime, systemState,
                   now, poles, readings, simPc, sweepAt, limits, node>>

\* loop: one turn computes the power flow and starts sendCoordinationState
\* for every pole; each builds its body from the readings before it first
\* awaits.  A turn starts when the previous turn's requests are all answered.
SimLoop ==
    /\ \A p \in Poles : simPc[p] = "idle"
    /\ readings' = calculatePhysics
    /\ simPc' = [p \in Poles |-> "ready"]
    /\ lastOp' = Result("loop", "sim", 200, FALSE, <<>>, <<>>, FALSE)
    /\ UNCHANGED <<mode, poleStates, pendingCommands, lastUpdateTime, systemState,
                   now, physics, poles, sweepAt, limits, node>>

\* sendCoordinationState, the POST of the body: the requests of one turn
\* reach the arbiter in any order.
SimPublish(poleId) ==
    /\ simPc[poleId] = "ready"
    /\ StateRoute(simBody(poleId, readings[poleId]))
    /\ ensureManagerIO
    /\ simPc' = [simPc EXCEPT ![poleId] = "sent"]
    /\ UNCHANGED <<now, physics, poles, readings, limits, node>>

\* sendCoordinationState, second half: poll the commands and execute them.
SimPoll(poleId) ==
    /\ simPc[poleId] = "sent"
    /\ CommandsRoute("sim", poleId)
    /\ ensureManagerIO
    /\ poles' = [poles EXCEPT ![poleId] = applyAll(@, pendingCommands["sim"][poleId])]
    /\ simPc' = [simPc EXCEPT ![poleId] = "idle"]
    /\ UNCHANGED <<now, physics, readings, limits, node>>

\* simulateRecovery: grid and wires repaired, every relay switched back on,
\* and a reset of the simulation context requested; a request that fails is
\* dropped by the catch.
SimRecovery(ok) ==
    /\ physics' = [gridPower |-> TRUE, wireCuts |-> [s \in Segments |-> FALSE]]
    /\ poles' = [k \in Poles |->
                    [relayIn |-> "ON",
                     relayOut |-> IF poles[k].relayOut # "N/A" THEN "ON" ELSE "N/A"]]
    /\ IF ok
       THEN ResetRoute([isSimulation |-> "true"]) /\ ensureManagerIO
       ELSE /\ lastOp' = Result("reset", "sim", 0, FALSE, <<>>, <<>>, FALSE)
            /\ UNCHANGED <<mode, poleStates, pendingCommands, lastUpdateTime,
                           systemState, sweepAt>>
    /\ UNCHANGED <<now, readings, simPc, limits, node>>

\* The arbiter's variables a node step leaves alone besides the stores.
nodeFrame == <<simVars, limits>>

\* Power-on or watchdog reset: the sketch starts again with its static
\* initialisers.
NodeReset ==
    /\ node.boots < MaxBoots
    /\ node' = StaticInit(node.pole, node.boots + 1)
    /\ lastOp' = Result("nodeReset", "none", 200, FALSE, <<>>, <<>>, FALSE)
    /\ UNCHANGED <<mode, poleStates, pendingCommands, lastUpdateTime, systemState,
                   now, sweepAt, nodeFrame>>

\* setup, with its boot delay.
NodeSetup(inHigh, outHigh) ==
    /\ node.pc = "setup"
    /\ node' = [setup(node, inHigh, outHigh) EXCEPT !.pc = "idle",
                                                    !.ms = @ + BOOT_DELAY_MS]
    /\ lastOp' = Result("nodeSetup", "none", 200, FALSE, <<>>, <<>>, FALSE)
    /\ UNCHANGED <<mode, poleStates, pendingCommands, lastUpdateTime, systemState,
                   now, sweepAt, nodeFrame>>

\* loop, steps 1 and 2, for the node n, d ms after its previous turn began
\* its delay: read the sensors, run the state machine, find the first
\* exchange that is due.
loopHead(n0, d, inHigh, outHigh, surge) ==
    LET t == n0.ms + d
        r == readCurrentSensors(n0, inHigh, outHigh)
        n == History(r, runStateMachine(r, t, readVoltageCurrent(r, surge)), t)
    IN [n EXCEPT !.pc = NextStage(n, t, 0), !.ms = t,
                 !.turnChanged = n.currentState # n0.currentState]

\* One turn of loop up to its first exchange.
NodeTick(d, inHigh, outHigh, surge) ==
    /\ node.pc = "idle"
    /\ node.ms + d <= NodeHorizon
    /\ node' = loopHead(node, d, inHigh, outHigh, surge)
    /\ lastOp' = Result("nodeTick", "none", 200, FALSE, <<>>, <<>>, FALSE)
    /\ UNCHANGED <<mode, poleStates, pendingCommands, lastUpdateTime, systemState,
                   now, sweepAt, nodeFrame>>

\* loop, step 4: publishState.
NodePublish ==
    /\ node.pc = "publish"
    /\ StateRoute(publishBody(node))
    /\ ensureManagerIO
    /\ LET n == [node EXCEPT !.lastSendTime = millis]
       IN node' = [n EXCEPT !.pc = NextStage(n, millis, 1)]
    /\ UNCHANGED <<now, nodeFrame>>

\* loop, step 5: pollUpstreamState; the request may fail on the network.
\* What a successful upstream poll reported.
Answered(snapshot) ==
    IF snapshot = NullSnap THEN "OFFLINE" ELSE snapshot.outgoingCurrent

NodePollUpstream(ok) ==
    /\ node.pc = "pollUp"
    /\ IF ok THEN PeerRoute("real", UPSTREAM_ID(node)) /\ ensureManagerIO
       ELSE /\ lastOp' = Result("getState", "real", 0, FALSE, <<>>, <<>>, FALSE)
            /\ UNCHANGED <<mode, poleStates, pendingCommands, lastUpdateTime,
                           systemState, sweepAt>>
    /\ LET n == pollUpstreamState([node EXCEPT !.lastPollTime = millis], ok,
                                  poleStates["real"][UPSTREAM_ID(node)])
       IN node' = [n EXCEPT !.pc = NextStage(n, millis, 2),
                            !.lastAnswer = IF ok THEN Answered(poleStates["real"][UPSTREAM_ID(node)])
                                           ELSE @]
    /\ UNCHANGED <<now, nodeFrame>>

\* loop, step 6: pollCommands.
NodePollCommands ==
    /\ node.pc = "pollCmd"
    /\ CommandsRoute("real", POLE_ID(node))
    /\ ensureManagerIO
    /\ LET n == pollCommands([node EXCEPT !.lastCmdPoll = millis], millis,
                             pendingCommands["real"][POLE_ID(node)])
       IN node' = [History(node, n, millis) EXCEPT !.pc = "idle",
                                                   !.condSince = node.condSince]
    /\ UNCHANGED <<now, nodeFrame>>

\* loop, step 4, when the request fails: publishState only logs the status.
NodePublishFails ==
    /\ node.pc = "publish"
    /\ lastOp' = Result("publish", "real", 0, FALSE, <<>>, <<>>, FALSE)
    /\ LET n == [node EXCEPT !.lastSendTime = millis]
       IN node' = [n EXCEPT !.pc = NextStage(n, millis, 1)]
    /\ UNCHANGED <<mode, poleStates, pendingCommands, lastUpdateTime, systemState,
                   now, sweepAt, nodeFrame>>

\* loop, step 6, when the request fails: pollCommands applies nothing.
NodePollCommandsFails ==
    /\ node.pc = "pollCmd"
    /\ lastOp' = Result("getCommands", "real", 0, FALSE, <<>>, <<>>, FALSE)
    /\ node' = [node EXCEPT !.lastCmdPoll = millis, !.pc = "idle"]
    /\ UNCHANGED <<mode, poleStates, pendingCommands, lastUpdateTime, systemState,
                   now, sweepAt, nodeFrame>>

(***************************************************************************)
(* Initial state: the modules as constructed                               *)
(***************************************************************************)
InitPhysics ==
    [gridPower |-> TRUE, wireCuts |-> [s \in Segments |-> FALSE]]

InitReadings ==
    [p \in Poles |-> [inCurrent |-> "LOW",
                      outCurrent |-> IF p = "Pole4" THEN "N/A" ELSE "LOW"]]

InitPoles ==
    [p \in Poles |-> IF p = "Pole4" THEN [relayIn |-> "N/A", relayOut |-> "N/A"]
                     ELSE [relayIn |-> "ON", relayOut |-> "ON"]]

\* The bounds of the specifications of the engine, the simulator and the API.
DefaultLimits == [queue |-> MaxQueue, clock |-> MaxNow]

NoOp == Result("none", "none", 200, FALSE, <<>>, <<>>, FALSE)

ConstructedWith(l, n) ==
    /\ poleStates = [c \in Contexts |-> EmptyPoleStates]
    /\ pendingCommands = [c \in Contexts |-> EmptyQueues]
    /\ lastUpdateTime = [c \in Contexts |-> ZeroTimes]
    /\ systemState = [c \in Contexts |-> Baseline(c)]
    /\ now = BootTime
    /\ physics = InitPhysics
    /\ poles = InitPoles
    /\ readings = InitReadings
    /\ simPc = [p \in Poles |-> "idle"]
    /\ sweepAt = [c \in Contexts |-> 0]
    /\ limits = l
    /\ node = n
    /\ lastOp = NoOp

\* The arbiter alone: the node is a first pole that is never powered.
ConstructedUnder(l) == ConstructedWith(l, StaticInit(1, 0))

Constructed == ConstructedUnder(DefaultLimits)

(***************************************************************************)
(* SpecEngine: the real context in REAL mode, fed by arbitrary publishes   *)
(* at one instant.                                                         *)
(***************************************************************************)
Levels == {"HIGH", "LOW"}

\* Publishes of real hardware with full field names.  A pole without incoming
\* current has no outgoing current; Pole4 has no outgoing sensor.
EngineBodies ==
    {b \in [poleId : Poles, isSimulation : {"absent"},
            incomingCurrent : Levels,
            outgoingCurrent : Levels \cup {"undef"},
            shortIn : {"undef"}, shortOut : {"undef"}] :
        /\ (b.outgoingCurrent = "undef") <=> (b.poleId = "Pole4")
        /\ (b.incomingCurrent = "LOW") => (b.outgoingCurrent # "HIGH")}

InitEngine == mode = "REAL" /\ Constructed

NextEngine ==
    \/ \E b \in EngineBodies : PostState(b)
    \/ \E p \in Poles : GetCommands("real", p)

SpecEngine == InitEngine /\ [][NextEngine]_vars

(***************************************************************************)
(* SpecRecovery: the real context over time.  All four poles have          *)
(* published healthy snapshots at boot; Pole1, Pole2 and Pole3 publish     *)
(* on, Pole1 also without an incoming reading (stored as UNKNOWN).         *)
(***************************************************************************)
Healthy(p) ==
    [incomingCurrent |-> "HIGH", outgoingCurrent |-> IF p = "Pole4" THEN "N/A" ELSE "HIGH"]

AllHealthy ==
    /\ mode = "REAL"
    /\ poleStates = [c \in Contexts |->
                        IF c = "real" THEN [p \in Poles |-> Healthy(p)] ELSE EmptyPoleStates]
    /\ pendingCommands = [c \in Contexts |-> EmptyQueues]
    /\ lastUpdateTime = [c \in Contexts |->
                            IF c = "real" THEN [p \in Poles |-> BootTime] ELSE ZeroTimes]
    /\ systemState = [c \in Contexts |-> Baseline(c)]
    /\ now = BootTime
    /\ physics = InitPhysics
    /\ poles = InitPoles
    /\ readings = InitReadings
    /\ simPc = [p \in Poles |-> "idle"]
    /\ sweepAt = [c \in Contexts |-> BootTime + SWEEP_MS]
    /\ limits = DefaultLimits
    /\ node = StaticInit(1, 0)
    /\ lastOp = Result("publish", "real", 200, FALSE, <<>>, <<>>, FALSE)

RecoveryBodies ==
    {b \in EngineBodies : b.poleId \in {"Pole2", "Pole3"}}
    \cup {b \in [poleId : {"Pole1"}, isSimulation : {"absent"},
                 incomingCurrent : Levels \cup {"undef"},
                 outgoingCurrent : Levels,
                 shortIn : {"undef"}, shortOut : {"undef"}] :
            b.outgoingCurrent = "HIGH" <=> b.incomingCurrent # "LOW"}

NextRecovery ==
    \/ \E b \in RecoveryBodies : PostState(b)
    \/ \E p \in {"Pole1", "Pole2"} : GetCommands("real", p)
    \/ \E d \in TickSteps : Tick(d)

SpecRecovery == AllHealthy /\ [][NextRecovery]_vars

(***************************************************************************)
(* SpecLoop: the simulator feeds the arbiter in SIM mode, turn after turn,  *)
(* and one wire is cut at some point.                                      *)
(***************************************************************************)
InitLoop == mode = "SIM" /\ Constructed

NextLoop ==
    \/ \E idx \in 1..3 : SimWireCut(idx)
    \/ SimLoop
    \/ \E p \in Poles : SimPublish(p)
    \/ \E p \in Poles : SimPoll(p)

SpecLoop == InitLoop /\ [][NextLoop]_vars

(***************************************************************************)
(* SpecClosedLoop: the simulator's loop with its timer, the operator's     *)
(* wire cuts and repairs, and the arbiter's staleness timer.  The timers   *)
(* and the requests of a turn are fair; the operator is not.               *)
(***************************************************************************)
\* setInterval(loop, INTERVAL_MS): a turn is due at every period, once.
TurnDue ==
    /\ (now - BootTime) % INTERVAL_MS = 0
    /\ \A p \in Poles : simPc[p] = "idle" /\ lastUpdateTime["sim"][p] # now

TurnDone == \A p \in Poles : simPc[p] = "idle" /\ lastUpdateTime["sim"][p] = now

NextTurnAt == BootTime + ((now - BootTime) \div INTERVAL_MS + 1) * INTERVAL_MS

ClosedTurn == TurnDue /\ SimLoop

\* Time passes to the next timer that is due.
ClosedTick ==
    /\ TurnDone \/ (now - BootTime) % INTERVAL_MS # 0
    /\ \E d \in {NextTurnAt - now, sweepAt["sim"] - now} :
          d > 0 /\ now + d <= NextTurnAt /\ Tick(d)

InitClosedLoop ==
    /\ mode = "SIM"
    /\ ConstructedUnder([queue |-> MaxSegmentQueue,
                         clock |-> BootTime + MaxTurns * INTERVAL_MS])

\* The requests of a turn are served in the order they were sent: the four
\* posts in the order of forEach, then the four polls.
Earlier(p) == {POLE_ORDER[j] : j \in {k \in 1..Len(POLE_ORDER) : \E i \in 1..Len(POLE_ORDER) : POLE_ORDER[i] = p /\ k < i}}

ClosedPublish(p) == (\A q \in Earlier(p) : simPc[q] # "ready") /\ SimPublish(p)

ClosedPoll(p) ==
    /\ \A q \in Poles : simPc[q] # "ready"
    /\ \A q \in Earlier(p) : simPc[q] = "idle"
    /\ SimPoll(p)

\* The operator cuts a wire during the first period and repairs while a
\* wire is cut.
NextClosedLoop ==
    \/ now = BootTime /\ \E idx \in 1..3 : SimWireCut(idx)
    \/ (\E s \in Segments : physics.wireCuts[s]) /\ \E ok \in BOOLEAN : SimRecovery(ok)
    \/ ClosedTurn
    \/ \E p \in Poles : ClosedPublish(p)
    \/ \E p \in Poles : ClosedPoll(p)
    \/ ClosedTick
    \/ \E c \in Contexts : Sweep(c)

\* The timers and the pending requests as the scheduler sees them: a turn
\* that is due starts, a request that was sent is served, a timer that is
\* due fires, and time passes to the next timer.
ClosedClock == <<simPc, now, sweepAt>>

ClosedSteps ==
    \/ /\ TurnDue
       /\ simPc' = [p \in Poles |-> "ready"]
       /\ UNCHANGED <<now, sweepAt>>
    \/ \E p \in Poles :
          /\ simPc[p] = "ready"
          /\ \A q \in Earlier(p) : simPc[q] # "ready"
          /\ simPc' = [simPc EXCEPT ![p] = "sent"]
          /\ now' = now
          /\ sweepAt' = [c \in Contexts |-> IF sweepAt[c] = 0 THEN now + SWEEP_MS ELSE sweepAt[c]]
    \/ \E p \in Poles :
          /\ simPc[p] = "sent"
          /\ \A q \in Poles : simPc[q] # "ready"
          /\ \A q \in Earlier(p) : simPc[q] = "idle"
          /\ simPc' = [simPc EXCEPT ![p] = "idle"]
          /\ UNCHANGED <<now, sweepAt>>
    \/ /\ TurnDone \/ (now - BootTime) % INTERVAL_MS # 0
       /\ \E d \in {NextTurnAt - now, sweepAt["sim"] - now} :
             /\ d > 0
             /\ now + d <= NextTurnAt
             /\ now + d <= limits.clock
             /\ \A c \in Contexts : sweepAt[c] = 0 \/ now + d <= sweepAt[c]
             /\ now' = now + d
       /\ UNCHANGED <<simPc, sweepAt>>
    \/ \E c \in Contexts :
          /\ sweepAt[c] # 0
          /\ now = sweepAt[c]
          /\ sweepAt' = [sweepAt EXCEPT ![c] = now + SWEEP_MS]
          /\ UNCHANGED <<simPc, now>>

SpecClosedLoop ==
    /\ InitClosedLoop
    /\ [][NextClosedLoop]_vars
    /\ WF_ClosedClock(ClosedSteps)

(***************************************************************************)
(* SpecApi: the publish, poll and command routes of the arbiter under      *)
(* every mode, with valid and unknown pole ids and every shape of the      *)
(* isSimulation flag.                                                      *)
(***************************************************************************)
IsSimValues == {"true", "false", "absent", "1"}

UnknownIds == {"Pole9"}

ApiStateBodies ==
    [poleId : {"Pole2"} \cup UnknownIds, isSimulation : IsSimValues,
     incomingCurrent : {"LOW"}, outgoingCurrent : {"HIGH"},
     shortIn : {"undef"}, shortOut : {"undef"}]

ApiDataBodies ==
    [poleId : {"Pole2"} \cup UnknownIds, isSimulation : IsSimValues, voltage : {0}]

ApiCommandBodies ==
    [poleId : {"Pole1", "undef"} \cup UnknownIds, action : {DISABLE},
     isSimulation : IsSimValues]

InitApi == mode = "IDLE" /\ Constructed

NextApi ==
    \/ \E m \in Modes \cup {"TEST"} : SetMode(m)
    \/ \E b \in ApiStateBodies : PostState(b)
    \/ \E b \in ApiDataBodies : PostData(b)
    \/ \E c \in Contexts, p \in {"Pole1"} \cup UnknownIds : GetState(c, p)
    \/ \E c \in Contexts, p \in {"Pole1"} \cup UnknownIds : GetCommands(c, p)
    \/ \E b \in ApiCommandBodies : PostCommand(b)

SpecApi == InitApi /\ [][NextApi]_vars

(***************************************************************************)
(* SpecQueue: the real context's command queues, filled by admin commands  *)
(* and drained by polls.                                                   *)
(***************************************************************************)
\* Queues hold up to MaxDrain commands here.
MaxDrain == 2

QueueBodies ==
    [poleId : {"Pole1", "Pole2"}, action : {DISABLE, ENABLE}, isSimulation : {"absent"}]

InitQueue ==
    mode = "REAL" /\ ConstructedUnder([queue |-> MaxDrain, clock |-> MaxNow])

NextQueue ==
    \/ \E b \in QueueBodies : PostCommand(b)
    \/ \E p \in {"Pole1", "Pole2"} : GetCommands("real", p)

SpecQueue == InitQueue /\ [][NextQueue]_vars

(***************************************************************************)
(* SpecStale: one context, fed by Pole1 and Pole2, under its staleness     *)
(* timer; the operator may reset it.                                       *)
(***************************************************************************)
\* The clock runs for MaxSweeps periods of the staleness timer.
MaxSweeps == 5

StaleBodies ==
    {b \in [poleId : {"Pole1", "Pole2"}, isSimulation : {"absent", "true"},
            incomingCurrent : Levels, outgoingCurrent : {"HIGH"},
            shortIn : {"undef"}, shortOut : {"undef"}] :
        IF b.poleId = "Pole1" THEN b.outgoingCurrent = "HIGH" ELSE b.incomingCurrent = "LOW"}

\* Time moves to the next firing of the timer or to the millisecond before.
StaleSteps ==
    {d \in {sweepAt["real"] - now - 1, sweepAt["real"] - now} : d > 0}

InitStale ==
    /\ mode \in {"REAL", "SIM"}
    /\ ConstructedUnder([queue |-> MaxQueue, clock |-> BootTime + MaxSweeps * SWEEP_MS])

NextStale ==
    \/ \E b \in StaleBodies : PostState(b)
    \/ \E b \in [isSimulation : {"absent", "true"}] : PostReset(b)
    \/ \E d \in StaleSteps : Tick(d)
    \/ \E c \in Contexts : Sweep(c)
    \/ \E c \in Contexts : GetState(c, "Pole1")
    \/ \E c \in Contexts : GetSystem(c)

SpecStale == InitStale /\ [][NextStale]_vars

(***************************************************************************)
(* SpecNode: a first pole running its firmware against the arbiter in REAL *)
(* mode; the operator queues commands for it.                              *)
(* SpecPeer: a second pole doing the same while its upstream neighbour     *)
(* publishes; it is powered on once.                                       *)
(***************************************************************************)
\* The time from one loop turn to the next: one of the two intervals, or
\* what brings the turn to the millisecond before a running debounce or
\* recovery interval ends.
NodeGaps ==
    {DEBOUNCE_MS, RECOVERY_MS}
    \cup {d \in {node.faultStartTime + DEBOUNCE_MS - 1 - node.ms} :
             node.faultStartTime # 0 /\ d >= LOOP_DELAY_MS}
    \cup {d \in {node.recoveryStart + RECOVERY_MS - 1 - node.ms} :
             node.currentState = "RECOVERY" /\ d >= LOOP_DELAY_MS}

NodeCommandBodies ==
    [poleId : {POLE_ID(node)}, action : {DISABLE, ENABLE}, isSimulation : {"absent"}]

\* The upstream neighbour reports power on both sides.
UpstreamBodies ==
    [poleId : {"Pole1"}, isSimulation : {"absent"},
     incomingCurrent : {"HIGH"}, outgoingCurrent : {"HIGH"},
     shortIn : {"undef"}, shortOut : {"undef"}]

InitNode ==
    /\ mode = "REAL"
    /\ ConstructedWith(DefaultLimits, StaticInit(1, 0))

NextNode ==
    \/ NodeReset
    \/ \E inHigh \in BOOLEAN, outHigh \in BOOLEAN : NodeSetup(inHigh, outHigh)
    \/ \E d \in NodeGaps, inHigh \in BOOLEAN, outHigh \in BOOLEAN, surge \in BOOLEAN :
          (surge => inHigh) /\ NodeTick(d, inHigh, outHigh, surge)
    \/ NodePublish
    \/ NodePollCommands
    \/ \E b \in NodeCommandBodies : PostCommand(b)

SpecNode == InitNode /\ [][NextNode]_vars

(***************************************************************************)
(* SpecBatch: the firmware of Pole1 on a healthy line, with an operator    *)
(* who queues up to MaxDrain commands between two polls.                   *)
(***************************************************************************)
InitBatch ==
    /\ mode = "REAL"
    /\ ConstructedWith([queue |-> MaxDrain, clock |-> MaxNow], StaticInit(1, 0))

NextBatch ==
    \/ NodeSetup(TRUE, TRUE)
    \/ \E d \in NodeGaps : NodeTick(d, TRUE, TRUE, FALSE)
    \/ NodePublish
    \/ NodePollCommands
    \/ \E b \in NodeCommandBodies : PostCommand(b)

SpecBatch == InitBatch /\ [][NextBatch]_vars

InitPeer ==
    /\ mode = "REAL"
    /\ ConstructedWith(DefaultLimits, StaticInit(2, 0))

NextPeer ==
    \/ \E inHigh \in BOOLEAN, outHigh \in BOOLEAN : NodeSetup(inHigh, outHigh)
    \/ \E d \in NodeGaps, inHigh \in BOOLEAN, outHigh \in BOOLEAN :
          NodeTick(d, inHigh, outHigh, FALSE)
    \/ NodePublish
    \/ \E ok \in BOOLEAN : NodePollUpstream(ok)
    \/ NodePollCommands
    \/ \E b \in NodeCommandBodies : b.action = DISABLE /\ PostCommand(b)
    \/ \E b \in UpstreamBodies : PostState(b)

SpecPeer == InitPeer /\ [][NextPeer]_vars

(***************************************************************************)
(* SpecUpstream: the firmware of Pole2 while Pole1, having published       *)
(* once, falls silent and is dropped by the staleness timer.               *)
(***************************************************************************)
UpstreamSteps == {d \in {sweepAt["real"] - now} : d > 0}

InitUpstream ==
    /\ mode = "REAL"
    /\ ConstructedWith([queue |-> MaxQueue, clock |-> BootTime + MaxContextSweeps * SWEEP_MS],
                       StaticInit(2, 0))

NextUpstream ==
    \/ NodeSetup(TRUE, TRUE)
    \/ \E d \in NodeGaps, inHigh \in BOOLEAN : NodeTick(d, inHigh, inHigh, FALSE)
    \/ NodePublish
    \/ NodePollUpstream(TRUE)
    \/ NodePollCommands
    \/ now = BootTime /\ \E b \in UpstreamBodies : PostState(b)
    \/ \E d \in UpstreamSteps : Tick(d)
    \/ \E c \in Contexts : Sweep(c)

SpecUpstream == InitUpstream /\ [][NextUpstream]_vars

(***************************************************************************)
(* Several segments isolated at once: Pole2, Pole3 and Pole4 publish on    *)
(* their own, each with what its own sensors can show, so the snapshot of  *)
(* a pole can be older than that of its neighbour.                         *)
(***************************************************************************)
SegmentBodies ==
    {b \in [poleId : {"Pole2", "Pole3", "Pole4"}, isSimulation : {"absent"},
            incomingCurrent : Levels,
            outgoingCurrent : Levels \cup {"undef"},
            shortIn : {"undef"}, shortOut : {"undef"}] :
        /\ (b.outgoingCurrent = "undef") <=> (b.poleId = "Pole4")
        /\ (b.incomingCurrent = "LOW") => (b.outgoingCurrent # "HIGH")
        /\ (b.poleId = "Pole2") => (b.incomingCurrent = "HIGH")}

InitSegments ==
    /\ mode = "REAL"
    /\ poleStates = [c \in Contexts |->
                        IF c = "real" THEN [p \in Poles |-> Healthy(p)] ELSE EmptyPoleStates]
    /\ pendingCommands = [c \in Contexts |-> EmptyQueues]
    /\ lastUpdateTime = [c \in Contexts |->
                            IF c = "real" THEN [p \in Poles |-> BootTime] ELSE ZeroTimes]
    /\ systemState = [c \in Contexts |-> Baseline(c)]
    /\ now = BootTime
    /\ physics = InitPhysics
    /\ poles = InitPoles
    /\ readings = InitReadings
    /\ simPc = [p \in Poles |-> "idle"]
    /\ sweepAt = [c \in Contexts |-> BootTime + SWEEP_MS]
    /\ limits = [queue |-> MaxSegmentQueue, clock |-> MaxNow]
    /\ node = StaticInit(1, 0)
    /\ lastOp = Result("publish", "real", 200, FALSE, <<>>, <<>>, FALSE)

NextSegments ==
    \/ \E b \in SegmentBodies : PostState(b)
    \/ \E d \in TickSteps : Tick(d)

SpecSegments == InitSegments /\ [][NextSegments]_vars

(***************************************************************************)
(* Both contexts in use: the mode is switched between REAL and SIM and the *)
(* poles of either context publish, then they fall silent; operators       *)
(* address either context and the two staleness timers run.                *)
(***************************************************************************)
ContextCommandBodies ==
    [poleId : {"Pole1"}, action : {ENABLE}, isSimulation : {"absent", "true"}]

\* Time moves to the next firing of the timers.
ContextSteps == {d \in {sweepAt["real"] - now} : d > 0}

InitContexts ==
    /\ mode \in {"REAL", "SIM"}
    /\ ConstructedUnder([queue |-> MaxQueue, clock |-> BootTime + MaxContextSweeps * SWEEP_MS])

NextContexts ==
    \/ \E m \in {"REAL", "SIM"} : now = BootTime /\ SetMode(m)
    \/ \E b \in StaleBodies : now = BootTime /\ PostState(b)
    \/ \E c \in Contexts : GetCommands(c, "Pole1")
    \/ \E b \in ContextCommandBodies : PostCommand(b)
    \/ \E b \in [isSimulation : {"absent", "true"}] : PostReset(b)
    \/ \E d \in ContextSteps : Tick(d)
    \/ \E c \in Contexts : Sweep(c)

SpecContexts == InitContexts /\ [][NextContexts]_vars

(***************************************************************************)
(* The firmware of Pole1 or Pole2 with an arbiter that may be unreachable: *)
(* every exchange of loop can fail.                                        *)
(***************************************************************************)
InitOffline ==
    /\ mode = "REAL"
    /\ \E pole \in {1, 2} : ConstructedWith(DefaultLimits, StaticInit(pole, 0))

NextOffline ==
    \/ \E inHigh \in BOOLEAN, outHigh \in BOOLEAN : NodeSetup(inHigh, outHigh)
    \/ \E d \in NodeGaps, inHigh \in BOOLEAN, outHigh \in BOOLEAN, surge \in BOOLEAN :
          (surge => inHigh) /\ NodeTick(d, inHigh, outHigh, surge)
    \/ NodePublish
    \/ NodePublishFails
    \/ \E ok \in BOOLEAN : NodePollUpstream(ok)
    \/ NodePollCommands
    \/ NodePollCommandsFails
    \/ \E b \in UpstreamBodies : node.pole > 1 /\ PostState(b)

SpecOffline == InitOffline /\ [][NextOffline]_vars

(***************************************************************************)
(* Properties                                                              *)
(***************************************************************************)
real == systemState["real"]

\* This step is a publish the real context accepted and swept.
Swept == lastOp'.op = "publish" /\ lastOp'.code = 200 /\ lastOp'.ctx = "real"

\* The store shows the mismatch of pair i: downstream LOW, upstream HIGH.
Mismatch(ps, i) ==
    /\ ps[POLE_ORDER[i + 1]].incomingCurrent = "LOW"
    /\ ps[POLE_ORDER[i]].outgoingCurrent = "HIGH"

\* The store shows the recovery condition of pair i: both ends HIGH.
BothHigh(ps, i) ==
    /\ ps[POLE_ORDER[i + 1]].incomingCurrent = "HIGH"
    /\ ps[POLE_ORDER[i]].outgoingCurrent = "HIGH"

Pairs == 1..(Len(POLE_ORDER) - 1)

QueuesEmpty(pc) == \A p \in DOMAIN pc : pc[p] = <<>>

Count(q, a) == Cardinality({j \in 1..Len(q) : q[j] = a})

LowSnap(p) ==
    [incomingCurrent |-> "LOW", outgoingCurrent |-> IF p = "Pole4" THEN "N/A" ELSE "LOW"]

\* All four poles healthy, nothing isolated, and pole k+1 publishes LOW.
SingleFault(k) ==
    /\ poleStates["real"] = [p \in Poles |-> Healthy(p)]
    /\ real.isolatedSegments = <<>>
    /\ Swept
    /\ poleStates'["real"] =
           [poleStates["real"] EXCEPT ![POLE_ORDER[k + 1]] = LowSnap(POLE_ORDER[k + 1])]

SingleFaultResult(k) ==
    /\ real'.status = "FAULT"
    /\ real'.faultLocation = faultSegment(k)
    /\ real'.isolatedSegments = <<faultSegment(k)>>
    /\ pendingCommands'["real"][POLE_ORDER[k]] = <<DISABLE>>
    /\ \A p \in DOMAIN pendingCommands'["real"] \ {POLE_ORDER[k]} :
           pendingCommands'["real"][p] = <<>>

\* C1 as stated: from all four poles healthy and no segment isolated, the
\* publish of LOW by pole k+1 leaves status FAULT, faultLocation and
\* isolatedSegments naming exactly Pole<k>-Pole<k+1>, exactly one DISABLE in
\* Pole<k>'s queue and every other queue empty.
C1_AsStated ==
    [][\A k \in Pairs : SingleFault(k) => SingleFaultResult(k)]_vars

\* C1 (amended): the same, when in addition every command queue is empty
\* before the publish (all earlier commands have been polled).
C1_SingleFaultLocalization ==
    [][\A k \in Pairs :
          (SingleFault(k) /\ QueuesEmpty(pendingCommands["real"]))
              => SingleFaultResult(k)]_vars

C1_Witness ==
    /\ lastOp.op = "publish" /\ lastOp.emits = <<<<"fault", "Pole2-Pole3">>>>
    /\ poleStates["real"] =
           [[p \in Poles |-> Healthy(p)] EXCEPT !["Pole3"] = LowSnap("Pole3")]
    /\ real.status = "FAULT"
    /\ real.isolatedSegments = <<"Pole2-Pole3">>
    /\ pendingCommands["real"]["Pole2"] = <<DISABLE>>

\* C3: in every sweep in which Pole1's stored snapshot has incomingCurrent
\* LOW, no segment is added to isolatedSegments and no command is queued,
\* whatever mismatches the other snapshots show; the sweep only sets status
\* GRID_DOWN.
C3_GridDownPrecedence ==
    [][(Swept /\ poleStates'["real"]["Pole1"].incomingCurrent = "LOW")
          => /\ real'.isolatedSegments = real.isolatedSegments
             /\ pendingCommands' = pendingCommands
             /\ real'.status = "GRID_DOWN"
             /\ real'.faultType = "GRID_DOWN"
             /\ real'.faultLocation = "Grid"]_vars

C3_Witness ==
    /\ lastOp.op = "publish" /\ lastOp.code = 200
    /\ poleStates["real"]["Pole1"].incomingCurrent = "LOW"
    /\ real.status = "GRID_DOWN"
    /\ \E i \in Pairs :
          /\ Mismatch(poleStates["real"], i)
          /\ ~includes(real.isolatedSegments, faultSegment(i))

\* C4: while a segment stays in isolatedSegments, no sweep queues another
\* DISABLE_OUTGOING_RELAY for its upstream pole, however many publishes
\* still show the mismatch.
C4_NoRepeatedDisable ==
    [][\A i \in Pairs :
          (/\ includes(real.isolatedSegments, faultSegment(i))
           /\ includes(real'.isolatedSegments, faultSegment(i)))
              => Count(pendingCommands'["real"][POLE_ORDER[i]], DISABLE)
                     <= Count(pendingCommands["real"][POLE_ORDER[i]], DISABLE)]_vars

C4_Witness ==
    /\ lastOp.op = "publish" /\ lastOp.code = 200 /\ lastOp.emits = <<>>
    /\ poleStates["real"]["Pole1"].incomingCurrent = "HIGH"
    /\ real.status = "FAULT"
    /\ \E i \in Pairs :
          /\ Mismatch(poleStates["real"], i)
          /\ includes(real.isolatedSegments, faultSegment(i))
          /\ pendingCommands["real"][POLE_ORDER[i]] = <<>>

\* C8: a sweep that finds status GRID_DOWN and Pole1's incomingCurrent HIGH
\* sets status NORMAL, clears faultLocation and faultType, empties
\* isolatedSegments and returns: no pair is evaluated, so no segment is
\* isolated and no command is queued in that sweep.
C8_GridRecovery ==
    [][(/\ Swept
        /\ real.status = "GRID_DOWN"
        /\ poleStates'["real"]["Pole1"].incomingCurrent = "HIGH")
          => /\ real'.status = "NORMAL"
             /\ real'.faultLocation = "null"
             /\ real'.faultType = "null"
             /\ real'.isolatedSegments = <<>>
             /\ pendingCommands' = pendingCommands
             /\ lastOp'.emits = <<<<"normal", "Grid">>>>
             /\ lastOp'.changed = TRUE]_vars

C8_Witness ==
    /\ lastOp.op = "publish" /\ lastOp.emits = <<<<"normal", "Grid">>>>
    /\ real.status = "NORMAL"
    /\ real.isolatedSegments = <<>>
    /\ \E i \in Pairs : Mismatch(poleStates["real"], i)

\* The sweep of this step removed segment i by the recovery rule.
Cleared(i) == Swept /\ includes(lastOp'.emits, <<"clear", faultSegment(i)>>)

\* C5 as stated: an isolated segment is removed by the recovery rule only
\* after its recovery condition has held at every sweep of an uninterrupted
\* span of at least 3000 ms.  A sweep that follows a sweep at which the
\* condition did not hold starts the span, so it cannot remove the segment.
C5_ContinuousStability ==
    [][\A i \in Pairs :
          (/\ includes(real.isolatedSegments, faultSegment(i))
           /\ ~BothHigh(poleStates["real"], i))
              => ~Cleared(i)]_vars

\* C6 as stated: when the recovery rule completes for a segment, the segment
\* is removed from isolatedSegments, exactly one ENABLE_OUTGOING_RELAY is
\* queued for its upstream pole, recoveryStartTime is cleared, and status
\* becomes NORMAL (faultLocation and faultType null) if and only if
\* isolatedSegments is now empty; otherwise status stays FAULT.
C6_AsStated ==
    [][\A i \in Pairs : Cleared(i) =>
          /\ ~includes(real'.isolatedSegments, faultSegment(i))
          /\ pendingCommands'["real"][POLE_ORDER[i]]
                 = Append(pendingCommands["real"][POLE_ORDER[i]], ENABLE)
          /\ real'.recoveryStartTime = 0
          /\ (real'.isolatedSegments = <<>>)
                 <=> (/\ real'.status = "NORMAL"
                      /\ real'.faultLocation = "null"
                      /\ real'.faultType = "null")
          /\ (real'.isolatedSegments # <<>>) => real'.status = "FAULT"]_vars

\* C6 (amended): when the recovery rule completes for a segment, the segment
\* is removed, exactly one ENABLE_OUTGOING_RELAY is queued for its upstream
\* pole, and status becomes NORMAL (faultLocation and faultType null) if and
\* only if isolatedSegments is empty after the sweep.  recoveryStartTime is
\* cleared unless a later pair of the same sweep, still isolated and showing
\* the recovery condition, restarts it at the time of the sweep.  With
\* segments still isolated the status is FAULT, or GRID_DOWN if it was
\* GRID_DOWN before the sweep.
C6_RecoveryCompletion ==
    [][\A i \in Pairs : Cleared(i) =>
          /\ ~includes(real'.isolatedSegments, faultSegment(i))
          /\ pendingCommands'["real"][POLE_ORDER[i]]
                 = Append(pendingCommands["real"][POLE_ORDER[i]], ENABLE)
          /\ real'.recoveryStartTime \in {0, now}
          /\ (real'.recoveryStartTime = now) =>
                 \E j \in Pairs :
                    /\ j > i
                    /\ includes(real'.isolatedSegments, faultSegment(j))
                    /\ BothHigh(poleStates'["real"], j)
          /\ (real'.isolatedSegments = <<>>)
                 <=> (/\ real'.status = "NORMAL"
                      /\ real'.faultLocation = "null"
                      /\ real'.faultType = "null")
          /\ (real'.isolatedSegments # <<>>) =>
                 /\ real'.status \in {"FAULT", "GRID_DOWN"}
                 /\ (real'.status = "GRID_DOWN") => (real.status = "GRID_DOWN")]_vars

C6_Witness ==
    /\ lastOp.op = "publish"
    /\ lastOp.emits = <<<<"clear", "Pole1-Pole2">>>>
    /\ real.isolatedSegments = <<"Pole2-Pole3">>
    /\ real.recoveryStartTime = now
    /\ real.status = "FAULT"
    /\ pendingCommands["real"]["Pole1"] = <<ENABLE>>

\* C7 as stated: a second sweep with no publish, reset or staleness sweep
\* changing the store in between adds no segment to isolatedSegments, queues
\* no command and returns changed = false.
C7_AsStated ==
    [][(Swept /\ lastOp'.resweep)
          => /\ real'.isolatedSegments = real.isolatedSegments
             /\ pendingCommands' = pendingCommands
             /\ lastOp'.changed = FALSE]_vars

\* C7 (amended): a second sweep run at the same instant on the store the
\* first sweep saw, where the first sweep did not take the grid-recovery
\* early return, adds no segment to isolatedSegments and removes none, leaves
\* status, faultLocation and faultType as they are, queues no command, emits
\* no event and returns changed = false; at most it starts the recovery
\* timer that a fault found later in the first sweep had reset.
C7_Idempotence ==
    [][(/\ Swept /\ lastOp'.resweep
        /\ ~includes(lastOp.emits, <<"normal", "Grid">>))
          => /\ real' = [real EXCEPT !.recoveryStartTime = real'.recoveryStartTime]
             /\ real'.recoveryStartTime \in {real.recoveryStartTime, now}
             /\ pendingCommands' = pendingCommands
             /\ lastOp'.changed = FALSE
             /\ lastOp'.emits = <<>>]_vars

C7_Witness ==
    /\ lastOp.op = "publish" /\ lastOp.resweep
    /\ lastOp.changed = FALSE
    /\ real.status = "FAULT"
    /\ \E i \in Pairs :
          /\ Mismatch(poleStates["real"], i)
          /\ includes(real.isolatedSegments, faultSegment(i))

sim == systemState["sim"]

\* C2: with the poles publishing independently, a single wire cut on segment
\* k -> k+1 causes only Pole<k>-Pole<k+1> ever to be isolated and only
\* Pole<k> ever to be sent DISABLE_OUTGOING_RELAY or to open its relay.
C2_OnlyAffectedSegment ==
    /\ \A s \in Range(sim.isolatedSegments) : physics.wireCuts[s]
    /\ \A i \in Pairs :
          (\/ includes(pendingCommands["sim"][POLE_ORDER[i]], DISABLE)
           \/ poles[POLE_ORDER[i]].relayOut = "OFF")
              => physics.wireCuts[faultSegment(i)]

\* The context a request declares, and the context of the current mode.
ContextOfMode == IF mode = "REAL" THEN "real" ELSE IF mode = "SIM" THEN "sim" ELSE "none"

Untouched == UNCHANGED <<poleStates, lastUpdateTime, systemState, pendingCommands>>

Refused == lastOp'.code >= 400 /\ Untouched

\* C9: a publish whose declared context does not match the current mode
\* (simulation-tagged in REAL, not simulation-tagged in SIM, anything in
\* IDLE) is rejected with an error and leaves snapshots, last-seen times,
\* SystemState and command queues of both contexts unchanged.
C9_ModeGating ==
    [][/\ \A b \in ApiStateBodies :
             (PostState(b) /\ managerOf(b.isSimulation) # ContextOfMode) => Refused
       /\ \A b \in ApiDataBodies :
             (PostData(b) /\ managerOf(b.isSimulation) # ContextOfMode) => Refused]_vars

\* C10: publish, pollPeer, pollCommands and adminCommand called with a pole
\* id outside Pole1..Pole4 return an error and leave the snapshot table,
\* last-seen times, SystemState and command queues unchanged.
C10_UnknownPoleRejected ==
    [][/\ \A b \in ApiStateBodies :
             (PostState(b) /\ b.poleId \in UnknownIds) => Refused
       /\ \A b \in ApiDataBodies :
             (PostData(b) /\ b.poleId \in UnknownIds) => Refused
       /\ \A b \in ApiCommandBodies :
             (PostCommand(b) /\ b.poleId \in UnknownIds) => Refused
       /\ \A c \in Contexts, p \in UnknownIds :
             (GetState(c, p) \/ GetCommands(c, p)) => Refused]_vars

\* C11: a poll of a pole returns, in the order they were queued, all the
\* commands queued for it since its previous poll and leaves its queue
\* empty, so no command is returned twice; the other poles' queues are
\* untouched.
C11_QueueDrain ==
    [][\A p \in Poles :
          GetCommands("real", p)
              => /\ lastOp'.ret = pendingCommands["real"][p]
                 /\ pendingCommands'["real"][p] = <<>>
                 /\ \A q \in DOMAIN pendingCommands["real"] \ {p} :
                       pendingCommands'["real"][q] = pendingCommands["real"][q]
                 /\ pendingCommands'["sim"] = pendingCommands["sim"]]_vars

C11_Witness ==
    /\ lastOp.op = "getCommands"
    /\ lastOp.ret = <<DISABLE, ENABLE>>
    /\ pendingCommands["real"]["Pole1"] = <<>>
    /\ pendingCommands["real"]["Pole2"] = <<ENABLE, DISABLE>>

Stores(c) == <<poleStates[c], pendingCommands[c], systemState[c]>>

AllNull(ps) == \A p \in Poles : ps[p] = NullSnap

\* C12: at each staleness sweep every pole holding a snapshot whose last
\* publish is more than STALE_TIMEOUT_MS old loses the snapshot and its
\* last-seen time, and a pole whose last publish is at most that old keeps
\* both; so a snapshot is never held past the first sweep that follows the
\* timeout, i.e. never longer than STALE_TIMEOUT_MS + SWEEP_MS.
C12_StalenessExpiry ==
    /\ [][\A c \in Contexts :
            Sweep(c) =>
              \A p \in Poles :
                 LET held == poleStates[c][p] # NullSnap
                     age == now - lastUpdateTime[c][p]
                 IN /\ (held /\ age > STALE_TIMEOUT_MS)
                         => /\ poleStates'[c][p] = NullSnap
                            /\ lastUpdateTime'[c][p] = 0
                    /\ (held /\ age <= STALE_TIMEOUT_MS)
                         => /\ poleStates'[c][p] = poleStates[c][p]
                            /\ lastUpdateTime'[c][p] = lastUpdateTime[c][p]]_vars
    /\ [](\A c \in Contexts : \A p \in Poles :
             poleStates[c][p] # NullSnap
                => now - lastUpdateTime[c][p] <= STALE_TIMEOUT_MS + SWEEP_MS)

C12_Witness ==
    /\ lastOp.op = "sweep" /\ lastOp.ctx = "real" /\ lastOp.emits = <<"update">>
    /\ poleStates["real"]["Pole1"] = NullSnap
    /\ lastUpdateTime["real"]["Pole1"] = 0
    /\ poleStates["real"]["Pole2"] # NullSnap
    /\ now - lastUpdateTime["real"]["Pole2"] = STALE_TIMEOUT_MS

C14_ResetIdempotent ==
    [][\A b \in [isSimulation : {"absent", "true"}] :
          PostReset(b) =>
            LET c == managerOf(b.isSimulation)
            IN /\ AllNull(poleStates'[c])
               /\ pendingCommands'[c] = EmptyQueues
               /\ systemState'[c] = Baseline(c)
               /\ (lastOp.op = "reset" /\ lastOp.ctx = c)
                     => /\ Stores(c)' = Stores(c)
                        /\ lastUpdateTime' = lastUpdateTime]_vars

C14_Witness ==
    /\ lastOp.op = "reset" /\ lastOp.ctx = "real"
    /\ lastUpdateTime["real"]["Pole1"] = now
    /\ lastUpdateTime["real"]["Pole2"] = now
    /\ Stores("real") = <<EmptyPoleStates, EmptyQueues, RealBaseline>>

\* C15: a pole without a snapshot reads back as OFFLINE, never as null: the
\* peer read answers {poleId, nodeState: OFFLINE} and the summary lists the
\* pole as {nodeState: OFFLINE}.
C15_OfflineReadBack ==
    [][\A c \in Contexts :
          /\ GetState(c, "Pole1")
                => /\ lastOp'.ret # <<NullSnap>>
                   /\ poleStates[c]["Pole1"] = NullSnap
                         => lastOp'.ret = <<[poleId |-> "Pole1", nodeState |-> "OFFLINE"]>>
          /\ GetSystem(c)
                => \A p \in Poles :
                      /\ lastOp'.ret[1].poles[p] # NullSnap
                      /\ poleStates[c][p] = NullSnap
                            => lastOp'.ret[1].poles[p] = [nodeState |-> "OFFLINE"]]_vars

C15_Witness ==
    /\ lastOp.op = "getState" /\ lastOp.ctx = "real"
    /\ lastOp.ret = <<[poleId |-> "Pole1", nodeState |-> "OFFLINE"]>>
    /\ lastUpdateTime["real"]["Pole1"] = 0
    /\ poleStates["real"]["Pole2"] # NullSnap
    /\ sweepAt["real"] > BootTime + 4 * SWEEP_MS

\* A loop turn of the node ran its state machine in this step.
Ticked == lastOp'.op = "nodeTick"

\* The node polls its commands in this step; Polled is what it receives.
Polls == node.pc = "pollCmd" /\ lastOp'.op = "getCommands"

Polled == pendingCommands["real"][POLE_ID(node)]

C17_GridLossDebounce ==
    [][(Ticked /\ node.pole = 1 /\ node.currentState = "NORMAL")
          => /\ (node'.condSince >= 0 /\ node'.ms - node'.condSince >= DEBOUNCE_MS)
                   => node'.currentState = "GRID_DOWN"
             /\ node'.currentState = "GRID_DOWN"
                   => /\ node'.condSince >= 0
                      /\ node'.ms - node'.condSince >= DEBOUNCE_MS
             /\ node'.incomingCurrentHigh
                   => /\ node'.currentState = "NORMAL"
                      /\ node'.faultStartTime = 0]_vars

\* C18: every transition NORMAL -> FAULT_UPSTREAM of a non-first node ends
\* an uninterrupted run of ticks, at least DEBOUNCE_MS long, on which the
\* node was in NORMAL without incoming current while the last-polled
\* upstream outgoing current was HIGH.
C18_UpstreamFaultDebounce ==
    [][(/\ Ticked /\ node.pole > 1
        /\ node.currentState = "NORMAL"
        /\ node'.currentState = "FAULT_UPSTREAM")
          => /\ node'.condSince >= 0
             /\ node'.ms - node'.condSince >= DEBOUNCE_MS]_vars

\* C19: a node that has not received DISABLE_OUTGOING_RELAY since it booted
\* is never in FAULT_DOWNSTREAM, and the command that brings it there leaves
\* its outgoing relay disabled.
C19_FaultDownstreamByCommand ==
    /\ [](node.currentState = "FAULT_DOWNSTREAM" => node.gotDisable)
    /\ [][(Polls /\ includes(Polled, DISABLE))
             => /\ node'.currentState = "FAULT_DOWNSTREAM"
                /\ ~node'.relayOutEnabled]_vars

\* C20: a tick takes the node from RECOVERY to NORMAL only if the stability
\* predicate holds on it and at least RECOVERY_MS have passed since RECOVERY
\* was entered, and then the outgoing relay is enabled and the fault flag
\* cleared; a tick on which the predicate is false takes it to
\* FAULT_DOWNSTREAM, so every entry into RECOVERY starts the interval anew.
C20_RecoveryStability ==
    [][(Ticked /\ node.currentState = "RECOVERY")
          => LET stable == /\ node'.incomingCurrentHigh
                           /\ (node'.outgoingCurrentHigh \/ ~node.relayOutEnabled)
             IN /\ node'.currentState = "NORMAL"
                      => /\ stable
                         /\ node.enteredAt >= 0
                         /\ node'.ms - node.enteredAt >= RECOVERY_MS
                         /\ node'.relayOutEnabled
                         /\ ~node'.faultFlag
                /\ ~stable => /\ node'.currentState = "FAULT_DOWNSTREAM"
                              /\ node'.enteredAt = -1
                /\ (stable /\ node'.ms - node.recoveryStart < RECOVERY_MS)
                      => node'.currentState = "RECOVERY"]_vars

C20_Witness ==
    /\ lastOp.op = "nodeTick"
    /\ node.currentState = "NORMAL"
    /\ node.gotDisable
    /\ node.relayOutEnabled /\ ~node.faultFlag
    /\ node.enteredAt = -1

\* The steps of loop that read the sensors and run the state machine with a
\* measurement over the voltage or current threshold.
SurgeTick ==
    \E d \in NodeGaps, inHigh \in BOOLEAN, outHigh \in BOOLEAN :
        NodeTick(d, inHigh, outHigh, TRUE) /\ readVoltageCurrent(node', TRUE)

Tripped(n) == ~n.relayInEnabled /\ ~n.relayOutEnabled /\ n.buzzer

LoopStep == node.pc # "setup" /\ node'.pc # "setup" /\ node' # node

\* C22 as stated: no step of loop turns the incoming relay off.
C22_IncomingRelayNeverOff ==
    [][LoopStep /\ node.relayInEnabled => node'.relayInEnabled]_vars

\* C22 amended: the only step of loop that turns the incoming relay off is
\* the over-voltage / over-current trip of a node in NORMAL; a command poll
\* never changes the incoming relay, and the relay it turns off is the
\* outgoing one, on DISABLE_OUTGOING_RELAY.
C22_IncomingRelayOffOnlyByTrip ==
    /\ [][LoopStep /\ node.relayInEnabled /\ ~node'.relayInEnabled
            => node.currentState = "NORMAL" /\ SurgeTick]_vars
    /\ [][Polls => /\ node'.relayInEnabled = node.relayInEnabled
                   /\ (node.relayOutEnabled /\ ~node'.relayOutEnabled
                          => includes(Polled, DISABLE))]_vars

C22_Witness ==
    /\ lastOp.op = "getCommands"
    /\ node.currentState = "FAULT_DOWNSTREAM"
    /\ node.relayInEnabled
    /\ ~node.relayOutEnabled

\* The node with other cached values of its upstream pole.
WithPeer(n, valid, high) ==
    [n EXCEPT !.upstreamDataValid = valid, !.upstreamOutHigh = high]

\* The turns of loop whose outcome is a local interlock: any turn of the
\* first node, a turn in GRID_DOWN, a turn in NORMAL with a measurement over
\* a threshold.
LocalInterlock(n, inHigh, surge) ==
    \/ n.pole = 1
    \/ n.currentState = "GRID_DOWN"
    \/ n.currentState = "NORMAL" /\ inHigh /\ surge

\* A step of the node whose exchange with the arbiter failed.
FailedExchange == node' # node /\ lastOp'.code = 0

\* C23: a node other than the first whose last upstream poll failed never
\* enters FAULT_UPSTREAM; the over-limit trip and the first node's GRID_DOWN
\* detection and recovery give the same result whatever the node has cached
\* of its upstream pole; a failed publish or poll changes neither the node
\* state nor the relays and loop goes on to its next step.
C23_GracefulDegradation ==
    /\ [][Ticked /\ node.pole > 1 /\ ~node.upstreamDataValid
            /\ node.currentState # "FAULT_UPSTREAM"
            => node'.currentState # "FAULT_UPSTREAM"]_vars
    /\ [][\A d \in NodeGaps, inHigh \in BOOLEAN, outHigh \in BOOLEAN, surge \in BOOLEAN :
            NodeTick(d, inHigh, outHigh, surge) /\ LocalInterlock(node, inHigh, surge)
            => \A valid \in BOOLEAN, high \in BOOLEAN :
                  loopHead(WithPeer(node, valid, high), d, inHigh, outHigh, surge)
                      = WithPeer(node', valid, high)]_vars
    /\ [][FailedExchange => /\ node'.pc # node.pc
                            /\ node'.pc # "setup"
                            /\ node'.currentState = node.currentState
                            /\ node'.relayInEnabled = node.relayInEnabled
                            /\ node'.relayOutEnabled = node.relayOutEnabled]_vars

C23_Witness ==
    /\ lastOp.op = "nodeTick"
    /\ node.pole = 2
    /\ node.currentState = "NORMAL"
    /\ ~node.upstreamDataValid
    /\ node.upstreamOutHigh
    /\ ~node.incomingCurrentHigh
    /\ node.ms - node.lastPollTime >= DEBOUNCE_MS

Other(c) == IF c = "real" THEN "sim" ELSE "real"

Kept(c) ==
    /\ poleStates'[c] = poleStates[c]
    /\ lastUpdateTime'[c] = lastUpdateTime[c]
    /\ systemState'[c] = systemState[c]
    /\ pendingCommands'[c] = pendingCommands[c]

\* C24: a publish (with its engine sweep), a command poll, an admin command,
\* a reset or a staleness sweep performed on one context leaves the other
\* context's snapshots, last-seen times, SystemState and queues as they were.
C24_ContextIndependence ==
    [][\A c \in Contexts : lastOp'.ctx = c => Kept(Other(c))]_vars

C24_Witness ==
    /\ lastOp.op = "sweep"
    /\ lastOp.ctx = "real"
    /\ lastOp.changed
    /\ systemState["sim"].status = "FAULT"
    /\ pendingCommands["sim"]["Pole1"] # <<>>
    /\ poleStates["sim"]["Pole2"] # NullSnap

\* This step is an answered POST /api/settings/mode.
ModeSet == lastOp'.op = "setMode"

\* The route asked the database to remove the simulation subtree.
Wiped == lastOp'.ret = <<"simulation">>

\* C25: every accepted change of the mode from SIM to another mode asks for
\* the removal of the simulation context's mirror in the database, and a
\* refused mode value changes neither the mode nor the mirror.
C25_WipeOnLeavingSim ==
    /\ [][ModeSet /\ lastOp'.code = 200 /\ mode = "SIM" /\ mode' # "SIM" => Wiped]_vars
    /\ [][ModeSet /\ lastOp'.code # 200 => mode' = mode /\ ~Wiped]_vars

\* C26: in one turn of loop currentState changes at most once, the state
\* machine step and the commands polled in that turn taken together.
C26_OneTransitionPerTurn ==
    [][Polls /\ node.turnChanged => node'.currentState = node.currentState]_vars

\* The transitions of the state machine that are not to touch a relay.
QuietTransitions ==
    {<<"NORMAL", "GRID_DOWN">>, <<"NORMAL", "FAULT_UPSTREAM">>,
     <<"GRID_DOWN", "NORMAL">>, <<"FAULT_UPSTREAM", "NORMAL">>}

\* C27: the transitions NORMAL -> GRID_DOWN, NORMAL -> FAULT_UPSTREAM,
\* GRID_DOWN -> NORMAL and FAULT_UPSTREAM -> NORMAL leave both relays as they
\* were, and a node in GRID_DOWN or FAULT_UPSTREAM returns to NORMAL on the
\* first tick that reads the incoming current high.
C27_QuietTransitions ==
    /\ [][Ticked /\ <<node.currentState, node'.currentState>> \in QuietTransitions
            => /\ node'.relayInEnabled = node.relayInEnabled
               /\ node'.relayOutEnabled = node.relayOutEnabled]_vars
    /\ [][Ticked /\ node.currentState \in {"GRID_DOWN", "FAULT_UPSTREAM"}
            => (node'.currentState = "NORMAL") = node'.incomingCurrentHigh]_vars

C27_Witness ==
    /\ lastOp.op = "nodeTick"
    /\ node.pole = 2
    /\ node.turnChanged
    /\ node.currentState = "NORMAL"
    /\ node.incomingCurrentHigh
    /\ ~node.upstreamDataValid
    /\ node.relayInEnabled /\ node.relayOutEnabled

\* C28: with two segments isolated, a segment is removed by the recovery
\* rule only after its own recovery condition has held for at least
\* RECOVERY_STABLE_MS, whatever happens to the other segment: it is not
\* removed by the first sweep at which its condition holds, and a sweep that
\* leaves it isolated with its condition still holding does not start its
\* wait again.
C28_PerSegmentRecoveryTiming ==
    /\ [][\A i \in Pairs :
            (/\ Len(real.isolatedSegments) = 2
             /\ includes(real.isolatedSegments, faultSegment(i))
             /\ ~BothHigh(poleStates["real"], i))
                => ~Cleared(i)]_vars
    /\ [][\A i \in Pairs :
            (/\ Swept
             /\ Len(real.isolatedSegments) = 2
             /\ includes(real.isolatedSegments, faultSegment(i))
             /\ includes(real'.isolatedSegments, faultSegment(i))
             /\ BothHigh(poleStates["real"], i)
             /\ BothHigh(poleStates'["real"], i)
             /\ real.recoveryStartTime # 0)
                => real'.recoveryStartTime = real.recoveryStartTime]_vars

\* C29: in every state of either context, status FAULT comes with at least
\* one isolated segment and status NORMAL, WAITING or SIM_IDLE with none, so
\* that isolated segments exist only under FAULT or GRID_DOWN.
C29_StatusIsolation ==
    \A c \in Contexts :
        /\ systemState[c].status = "FAULT" => systemState[c].isolatedSegments # <<>>
        /\ systemState[c].status \in {"NORMAL", "WAITING", "SIM_IDLE"}
               => systemState[c].isolatedSegments = <<>>

C29_Witness ==
    /\ lastOp.op = "publish"
    /\ lastOp.emits = <<<<"gridDown", "Grid">>>>
    /\ real.status = "GRID_DOWN"
    /\ Len(real.isolatedSegments) = 2

\* C30: in every state with status FAULT, faultLocation names a segment that
\* is in isolatedSegments, also after one of several isolated segments has
\* recovered.
C30_FaultLocationIsolated ==
    \A c \in Contexts :
        systemState[c].status = "FAULT"
            => includes(systemState[c].isolatedSegments, systemState[c].faultLocation)

\* C31: a sweep that removes a segment from isolatedSegments, by the
\* recovery rule or by the grid recovery, queues ENABLE_OUTGOING_RELAY for
\* the upstream pole of that segment.
C31_EnableOnEveryRemoval ==
    [][Swept =>
         \A i \in Pairs :
            (/\ includes(real.isolatedSegments, faultSegment(i))
             /\ ~includes(real'.isolatedSegments, faultSegment(i)))
               => /\ Len(pendingCommands'["real"][POLE_ORDER[i]])
                       > Len(pendingCommands["real"][POLE_ORDER[i]])
                  /\ includes(pendingCommands'["real"][POLE_ORDER[i]], ENABLE)]_vars

\* C32: in the timed closed loop, once the upstream pole has applied
\* DISABLE_OUTGOING_RELAY for an isolated segment and every wire is whole,
\* the engine eventually takes the segment out of isolatedSegments and
\* queues ENABLE_OUTGOING_RELAY, unless a reset or a new wire cut intervenes.
DisabledAndRepaired(i) ==
    /\ includes(sim.isolatedSegments, faultSegment(i))
    /\ poles[POLE_ORDER[i]].relayOut = "OFF"
    /\ physics.gridPower
    /\ \A s \in Segments : ~physics.wireCuts[s]
    /\ now + 3 * INTERVAL_MS <= limits.clock

Reenabled(i) ==
    /\ ~includes(sim.isolatedSegments, faultSegment(i))
    /\ includes(pendingCommands["sim"][POLE_ORDER[i]], ENABLE)

Intervened == lastOp.op \in {"reset", "wireCut"}

BatchPoll == Polls /\ lastOp'.code = 200 /\ includes(Polled, DISABLE) /\ includes(Polled, ENABLE)

AsSimulated(n) ==
    [relayIn |-> IF n.relayInEnabled THEN "ON" ELSE "OFF",
     relayOut |-> IF n.relayOutEnabled THEN "ON" ELSE "OFF"]

C33_BatchAsInQueueOrder ==
    [][BatchPoll => AsSimulated(node').relayOut = applyAll(AsSimulated(node), Polled).relayOut]_vars

\* C34: a non-terminal node in FAULT_DOWNSTREAM has its outgoing relay
\* disabled, on whatever path it came into that state.
C34_FaultDownstreamRelayOff ==
    (node.pole < Len(POLE_ORDER) /\ node.currentState = "FAULT_DOWNSTREAM")
        => ~node.relayOutEnabled

\* C35: a publish or an admin command that passes the mode gate changes
\* nothing outside the context of the current mode, whatever the value of
\* the request's isSimulation field.
Accepted == lastOp'.op \in {"publish", "command"} /\ lastOp'.code = 200

C35_AcceptedIntoContextOfMode ==
    [][Accepted => ContextOfMode \in Contexts /\ Kept(Other(ContextOfMode))]_vars

\* C36: a sweep only appends to the queues; what it appends is
\* DISABLE_OUTGOING_RELAY for the upstream pole of a segment it isolates or
\* ENABLE_OUTGOING_RELAY for the upstream pole of a segment that was isolated
\* when the sweep began, and nothing for Pole4.
Added(p) ==
    SubSeq(pendingCommands'["real"][p], Len(pendingCommands["real"][p]) + 1,
           Len(pendingCommands'["real"][p]))

UpstreamOf(p) == {i \in Pairs : POLE_ORDER[i] = p}

C36_EngineCommands ==
    [][Swept =>
         \A p \in Poles :
            /\ Len(pendingCommands'["real"][p]) >= Len(pendingCommands["real"][p])
            /\ SubSeq(pendingCommands'["real"][p], 1, Len(pendingCommands["real"][p]))
                   = pendingCommands["real"][p]
            /\ \A k \in 1..Len(Added(p)) :
                  /\ Added(p)[k] \in {DISABLE, ENABLE}
                  /\ \E i \in UpstreamOf(p) :
                        /\ Added(p)[k] = ENABLE =>
                              includes(real.isolatedSegments, faultSegment(i))
                        /\ Added(p)[k] = DISABLE =>
                              /\ ~includes(real.isolatedSegments, faultSegment(i))
                              /\ includes(real'.isolatedSegments, faultSegment(i))]_vars

C36_Witness ==
    /\ lastOp.op = "publish"
    /\ pendingCommands["real"]["Pole3"] = <<DISABLE, ENABLE>>
    /\ includes(pendingCommands["real"]["Pole2"], DISABLE)

\* C37: a non-first node enters FAULT_UPSTREAM only when its most recent
\* successful upstream poll reported outgoingCurrent HIGH, and so not when
\* that poll was answered with the OFFLINE placeholder.
EntersFaultUpstream ==
    /\ node.pole > 1
    /\ node.currentState # "FAULT_UPSTREAM"
    /\ node'.currentState = "FAULT_UPSTREAM"

C37_FaultUpstreamOnFreshHigh ==
    [][EntersFaultUpstream => node.lastAnswer = "HIGH"]_vars

\* C38: the first node, set up without incoming current, is in GRID_DOWN
\* with both relays off; the turn of loop that finds incoming current back
\* takes it to NORMAL and switches no relay; from then on the incoming relay
\* stays off until the node is set up again, and the outgoing relay stays
\* off until then or until a poll returns ENABLE_OUTGOING_RELAY.
SetUp == node.pc = "setup" /\ lastOp'.op = "nodeSetup"

RelaysOff(n) == ~n.relayInEnabled /\ ~n.relayOutEnabled

C38_BootWithoutGrid ==
    /\ [][(SetUp /\ node.pole = 1 /\ ~node'.incomingCurrentHigh)
             => node'.currentState = "GRID_DOWN" /\ RelaysOff(node')]_vars
    /\ [][(Ticked /\ node.pole = 1 /\ node.currentState = "GRID_DOWN"
               /\ node'.incomingCurrentHigh)
             => /\ node'.currentState = "NORMAL"
                /\ node'.relayInEnabled = node.relayInEnabled
                /\ node'.relayOutEnabled = node.relayOutEnabled]_vars
    /\ [][(node.pc # "setup" /\ ~node.relayInEnabled) => ~node'.relayInEnabled]_vars
    /\ [][(node.pc # "setup" /\ ~node.relayOutEnabled /\ node'.relayOutEnabled)
             => Polls /\ includes(Polled, ENABLE)]_vars

\* C38, amended: as above, but the outgoing relay is also switched on when
\* a RECOVERY completes that the node entered by itself from
\* FAULT_DOWNSTREAM, after a DISABLE_OUTGOING_RELAY command.
C38_BootWithoutGridOrRecovery ==
    /\ [][(SetUp /\ node.pole = 1 /\ ~node'.incomingCurrentHigh)
             => node'.currentState = "GRID_DOWN" /\ RelaysOff(node')]_vars
    /\ [][(Ticked /\ node.pole = 1 /\ node.currentState = "GRID_DOWN"
               /\ node'.incomingCurrentHigh)
             => /\ node'.currentState = "NORMAL"
                /\ node'.relayInEnabled = node.relayInEnabled
                /\ node'.relayOutEnabled = node.relayOutEnabled]_vars
    /\ [][(node.pc # "setup" /\ ~node.relayInEnabled) => ~node'.relayInEnabled]_vars
    /\ [][(node.pc # "setup" /\ ~node.relayOutEnabled /\ node'.relayOutEnabled)
             => \/ Polls /\ includes(Polled, ENABLE)
                \/ /\ Ticked
                   /\ node.currentState = "RECOVERY"
                   /\ node'.currentState = "NORMAL"
                   /\ node.gotDisable]_vars

C38_Witness ==
    /\ node.pole = 1
    /\ node.pc # "setup"
    /\ node.currentState = "NORMAL"
    /\ node.incomingCurrentHigh
    /\ RelaysOff(node)
    /\ ~node.gotDisable
    /\ lastOp.op = "nodeTick"

\* C39: while every stored snapshot of a context is healthy, a publish
\* leaves a baseline status (WAITING, SIM_IDLE) as it is; status becomes
\* NORMAL only in a sweep that runs the grid recovery or completes the
\* recovery of the last isolated segment.
HealthySnap(x) == x.incomingCurrent = "HIGH" /\ x.outgoingCurrent \in {"HIGH", "N/A"}

AllHealthyIn(ps) == \A p \in Poles : ps[p] = NullSnap \/ HealthySnap(ps[p])

PublishedTo(c) == lastOp'.op = "publish" /\ lastOp'.code = 200 /\ lastOp'.ctx = c

C39_BaselineSticky ==
    /\ [][\A c \in Contexts :
            (/\ PublishedTo(c)
             /\ systemState[c].status = Baseline(c).status
             /\ AllHealthyIn(poleStates'[c]))
               => systemState'[c].status = Baseline(c).status]_vars
    /\ [][\A c \in Contexts :
            (systemState[c].status # "NORMAL" /\ systemState'[c].status = "NORMAL")
               => /\ PublishedTo(c)
                  /\ \/ systemState[c].status = "GRID_DOWN"
                     \/ /\ systemState[c].isolatedSegments # <<>>
                        /\ systemState'[c].isolatedSegments = <<>>]_vars

C39_Witness ==
    /\ lastOp.op = "publish"
    /\ lastOp.code = 200
    /\ now > BootTime
    /\ lastUpdateTime["real"]["Pole2"] = now
    /\ AllHealthyIn(poleStates["real"])
    /\ real.status = "WAITING"

====
